---- MODULE Spec2Model ----
(***************************************************************************)
(* A generalized suffix tree (cceh/suffix-tree) and its three builders.    *)
(*                                                                         *)
(* The same client drives three Tree objects, one per builder (Naive,      *)
(* McCreight, Ukkonen), as the parametrized unit tests do.  Tree.add first *)
(* copies the caller's iterable, followed by a unique end character, into  *)
(* an immutable tuple and then runs the builder's main loop over it; the   *)
(* three main loops advance in lockstep, one iteration per Step.           *)
(*                                                                         *)
(* Nodes live in an arena (a sequence); a node handle is its index.        *)
(* Node.S, a reference to a Python list, is the index of that list in the  *)
(* tree's bufs.  Caller symbols are 1..NSym; the UniqueEndChar object of   *)
(* the k-th add, which is equal to nothing but itself, is the integer -k.  *)
(* The k-th add uses the k-th key of the dict, written k.                  *)
(***************************************************************************)
EXTENDS Integers, Sequences, FiniteSets, TLC

VARIABLES naive, mccreight, ukkonen, adds, path, pos, pc, word, bits, prepared,
          progress, mixed, choice

vars == <<naive, mccreight, ukkonen, adds, path, pos, pc, word, bits, prepared,
          progress, mixed, choice>>

\* Bounds of the model.
NSym == 2
MaxLen == 3
MaxAdds == 3
MaxTick == 4

Symbols == 1..NSym

\* util.py UniqueEndChar(id_): the end character of the k-th add.
UniqueEndChar(k) == 0 - k

\* Python's None, as a node handle.
None == 0
\* The root of a tree: the first node of the arena.
Root == 1
\* Ukkonen's auxiliary node: lives outside the arena, one per build.
Aux == 0 - 1

Min(a, b) == IF a < b THEN a ELSE b

(***************************************************************************)
(* Bit helpers of lca_mixin.py                                             *)
(*                                                                         *)
(* A Python int is unbounded.  It is written here as the pair <<hi, lo>>   *)
(* of value hi * 2^16 + lo with 0 <= lo < 2^16, in two's complement: the   *)
(* sign is the sign of hi.  The pair keeps every 32-bit word, and its      *)
(* complement, inside the integers the checker can compute with.           *)
(***************************************************************************)

Pow2(n) == 2^n

\* The Python int of value n.
PyInt(n) == <<n \div Pow2(16), n % Pow2(16)>>

\* The value of a Python int that is small.
Value(x) == x[1] * Pow2(16) + x[2]

\* Python's x >> s for 0 <= s <= 16: the floor of x / 2^s.
Rshift(x, s) ==
    <<x[1] \div Pow2(s), (x[1] % Pow2(s)) * Pow2(16 - s) + (x[2] \div Pow2(s))>>

\* Python's a & b on integers, negative ones in two's complement.
RECURSIVE BitAnd(_, _)
BitAnd(a, b) ==
    IF a = 0 \/ b = 0 THEN 0
    ELSE IF a = 0 - 1 THEN b
    ELSE IF b = 0 - 1 THEN a
    ELSE (a % 2) * (b % 2) + 2 * BitAnd(a \div 2, b \div 2)

\* Python's x & y, ~x and x - 1 on pairs.
And(x, y) == <<BitAnd(x[1], y[1]), BitAnd(x[2], y[2])>>
Invert(x) == <<0 - x[1] - 1, Pow2(16) - 1 - x[2]>>
Pred(x) == IF x[2] = 0 THEN <<x[1] - 1, Pow2(16) - 1>> ELSE <<x[1], x[2] - 1>>

\* lca_mixin.py nlz: n = 32
WordBits == 32

\* The words the helpers are called on: both halves range over 0, the powers of
\* two, the runs of ones and the numbers up to MaxHalf.
MaxHalf == 12
Halves ==
    (0..MaxHalf) \cup {Pow2(i) : i \in 0..15} \cup {Pow2(i) - 1 : i \in 1..16}
       \cup {Pow2(16) - Pow2(i) : i \in 0..15}
Words == Halves \X Halves

\* Mutant of NlzLoop: the last word, 0 or 1, is not subtracted.
RECURSIVE NlzLoopNoLastBit(_, _, _)
NlzLoopNoLastBit(x, n, shifts) ==
    IF shifts = <<>> THEN n
    ELSE LET y == Rshift(x, Head(shifts))
         IN  IF y # PyInt(0)
             THEN NlzLoopNoLastBit(y, n - Head(shifts), Tail(shifts))
             ELSE NlzLoopNoLastBit(x, n, Tail(shifts))

\* lca_mixin.py nlz, the loop for shift in (16, 8, 4, 2, 1) and return n - x.
RECURSIVE NlzLoop(_, _, _)
NlzLoop(x, n, shifts) ==
    IF shifts = <<>> THEN n - Value(x)
    ELSE LET y == Rshift(x, Head(shifts))
         IN  IF y # PyInt(0)
             THEN NlzLoop(y, n - Head(shifts), Tail(shifts))
             ELSE NlzLoop(x, n, Tail(shifts))

\* lca_mixin.py nlz
nlz(x) == NlzLoop(x, WordBits, <<16, 8, 4, 2, 1>>)

\* lca_mixin.py msb
msb(x) == 31 - nlz(x)

\* lca_mixin.py h
h(k) == 32 - nlz(And(Invert(k), Pred(k)))

\* h and msb of an integer.  The values for the integers up to MaxTabled, as
\* nlz computes them, are kept in a table.
MaxTabled == 127
HTable == [k \in 0..MaxTabled |-> h(PyInt(k))]
MsbTable == [k \in 0..MaxTabled |-> msb(PyInt(k))]
H(k) == IF k \in DOMAIN HTable THEN HTable[k] ELSE h(PyInt(k))
Msb(k) == IF k \in DOMAIN MsbTable THEN MsbTable[k] ELSE msb(PyInt(k))

(***************************************************************************)
(* Node store                                                              *)
(***************************************************************************)

\* node.py Internal.__init__
Internal(parent, S, start, end) ==
    [leaf |-> FALSE, parent |-> parent, S |-> S, start |-> start, end |-> end,
     open |-> FALSE, str_id |-> 0, children |-> <<>>, suffix_link |-> None,
     lca_id |-> 0, I |-> 0, A |-> 0]

\* node.py Leaf.__init__
Leaf(parent, str_id, S, start, end) ==
    [leaf |-> TRUE, parent |-> parent, S |-> S, start |-> start, end |-> end,
     open |-> FALSE, str_id |-> str_id, children |-> <<>>, suffix_link |-> None,
     lca_id |-> 0, I |-> 0, A |-> 0]

\* node.py UkkonenLeaf.__init__: the end is not stored, it is len(self.S).
UkkonenLeaf(parent, str_id, S, start) ==
    [leaf |-> TRUE, parent |-> parent, S |-> S, start |-> start, end |-> 0,
     open |-> TRUE, str_id |-> str_id, children |-> <<>>, suffix_link |-> None,
     lca_id |-> 0, I |-> 0, A |-> 0]

\* The Python list a node's S refers to; the root's S is the empty tuple.
Buf(t, b) == IF b = 0 THEN <<>> ELSE t.bufs[b]

\* S[i] with Python's 0-based index.
At(seq, i) == seq[i + 1]

\* node.py UkkonenLeaf.end / Node.end
End(t, n) ==
    IF n = Aux THEN 0
    ELSE IF t.nodes[n].open THEN Len(Buf(t, t.nodes[n].S)) ELSE t.nodes[n].end

Start(t, n) == IF n = Aux THEN 0 ELSE t.nodes[n].start

\* node.py Node.depth / UkkonenLeaf.depth
Depth(t, n) == End(t, n) - Start(t, n)

\* node.py Node.__getitem__: the symbol at position i of the node's path.
NodeAt(t, n, i) == At(Buf(t, t.nodes[n].S), t.nodes[n].start + i)

IsInternal(t, n) == n = Aux \/ ~t.nodes[n].leaf

Children(t, n) == IF n = Aux THEN <<>> ELSE t.nodes[n].children

SuffixLink(t, n) == IF n = Aux THEN None ELSE t.nodes[n].suffix_link

\* dict.get on a children map, kept in insertion order as <<key, child>> pairs.
ChildGet(ch, key) ==
    IF \E j \in 1..Len(ch) : ch[j][1] = key
    THEN ch[CHOOSE j \in 1..Len(ch) : ch[j][1] = key][2]
    ELSE None

HasKey(ch, key) == \E j \in 1..Len(ch) : ch[j][1] = key

\* dict.__setitem__: an existing key keeps its place, a new key goes last.
ChildSet(ch, key, c) ==
    IF HasKey(ch, key)
    THEN [j \in 1..Len(ch) |-> IF ch[j][1] = key THEN <<key, c>> ELSE ch[j]]
    ELSE Append(ch, <<key, c>>)

\* The label S[start:end] of a node.
Label(t, n) ==
    IF n = Aux THEN <<>>
    ELSE SubSeq(Buf(t, t.nodes[n].S), t.nodes[n].start + 1, End(t, n))

Fail(t, msg) == IF t.err = "" THEN [t EXCEPT !.err = msg] ELSE t

(***************************************************************************)
(* Edge operations                                                         *)
(***************************************************************************)

\* Mutant of FollowEdge: the edge is taken to match without being compared.
FollowEdgeNoCompare(t, child, q, matched_len, stop) ==
    IF matched_len < stop THEN stop ELSE matched_len

\* node.py Internal.find_path, the inner while: follow the edge into child.
RECURSIVE FollowEdge(_, _, _, _, _)
FollowEdge(t, child, q, matched_len, stop) ==
    IF matched_len < stop
    THEN IF NodeAt(t, child, matched_len) # At(q, matched_len)
         THEN matched_len
         ELSE FollowEdge(t, child, q, matched_len + 1, stop)
    ELSE matched_len

\* node.py Internal.find_path, the outer while.  q is S[start:end].
RECURSIVE FindLoop(_, _, _, _)
FindLoop(t, node, matched_len, q) ==
    IF matched_len < Len(q)
    THEN IF ~IsInternal(t, node)
         THEN [node |-> node, matched_len |-> matched_len, child |-> None,
               err |-> "find_path: not an Internal"]
         ELSE LET child == ChildGet(Children(t, node), At(q, matched_len))
              IN  IF child # None
                  THEN LET stop == Min(Depth(t, child), Len(q))
                           m == FollowEdge(t, child, q, matched_len, stop)
                       IN  IF m < Depth(t, child)
                           THEN [node |-> node, matched_len |-> m,
                                 child |-> child, err |-> ""]
                           ELSE FindLoop(t, child, m, q)
                  ELSE [node |-> node, matched_len |-> matched_len,
                        child |-> None, err |-> ""]
    ELSE [node |-> node, matched_len |-> matched_len, child |-> None, err |-> ""]

\* node.py Internal.find_path
find_path(t, self, q) == FindLoop(t, self, Depth(t, self), q)

\* Mutant of split_edge: the child keeps its old parent.
split_edge_child_not_reparented(t, self, new_len, child) ==
    IF ~(self # Aux /\ Depth(t, self) < new_len /\ new_len < Depth(t, child))
    THEN Fail(t, "split length")
    ELSE LET c == t.nodes[child]
             new_edge_end == c.start + new_len
             new_node == Len(t.nodes) + 1
             n0 == Internal(self, c.S, c.start, new_edge_end)
             n1 == [n0 EXCEPT !.children =
                        <<<<At(Buf(t, c.S), new_edge_end), child>>>>]
             key == At(Buf(t, c.S), c.start + Depth(t, self))
         IN  [t EXCEPT !.nodes =
                 Append([t.nodes EXCEPT
                            ![self].children = ChildSet(@, key, new_node)],
                        n1)]

\* Mutant of split_edge: the new node takes over the suffix link of the
\* parent.
split_edge_link_inherited(t, self, new_len, child) ==
    IF ~(self # Aux /\ Depth(t, self) < new_len /\ new_len < Depth(t, child))
    THEN Fail(t, "split length")
    ELSE LET c == t.nodes[child]
             new_edge_end == c.start + new_len
             new_node == Len(t.nodes) + 1
             n0 == Internal(self, c.S, c.start, new_edge_end)
             n1 == [n0 EXCEPT !.children =
                        <<<<At(Buf(t, c.S), new_edge_end), child>>>>,
                              !.suffix_link = t.nodes[self].suffix_link]
             key == At(Buf(t, c.S), c.start + Depth(t, self))
         IN  [t EXCEPT !.nodes =
                 Append([t.nodes EXCEPT
                            ![self].children = ChildSet(@, key, new_node),
                            ![child].parent = new_node],
                        n1)]

\* Mutant of split_edge: the child is not hung below the new node.
split_edge_drops_child(t, self, new_len, child) ==
    IF ~(self # Aux /\ Depth(t, self) < new_len /\ new_len < Depth(t, child))
    THEN Fail(t, "split length")
    ELSE LET c == t.nodes[child]
             new_edge_end == c.start + new_len
             new_node == Len(t.nodes) + 1
             n0 == Internal(self, c.S, c.start, new_edge_end)
             key == At(Buf(t, c.S), c.start + Depth(t, self))
         IN  [t EXCEPT !.nodes =
                 Append([t.nodes EXCEPT
                            ![self].children = ChildSet(@, key, new_node),
                            ![child].parent = new_node],
                        n0)]

\* node.py Internal.split_edge: the tree after the split; the new node is the
\* last node of the arena.
split_edge(t, self, new_len, child) ==
    IF ~(self # Aux /\ Depth(t, self) < new_len /\ new_len < Depth(t, child))
    THEN Fail(t, "split length")
    ELSE LET c == t.nodes[child]
             new_edge_end == c.start + new_len
             new_node == Len(t.nodes) + 1
             n0 == Internal(self, c.S, c.start, new_edge_end)
             n1 == [n0 EXCEPT !.children =
                        <<<<At(Buf(t, c.S), new_edge_end), child>>>>]
             key == At(Buf(t, c.S), c.start + Depth(t, self))
         IN  [t EXCEPT !.nodes =
                 Append([t.nodes EXCEPT
                            ![self].children = ChildSet(@, key, new_node),
                            ![child].parent = new_node],
                        n1)]

\* The node split_edge has just returned.
NewNode(t) == Len(t.nodes)

(***************************************************************************)
(* Tree                                                                    *)
(***************************************************************************)

\* tree.py Tree.__init__ with no dict: a root and nothing else.
\* builder is the Builder object of the last add: the locals of its build().
\* lca_mixin.py Tree.__init__: L is None and nodemap is empty.
EmptyTree ==
    [nodes |-> <<Internal(None, 0, 0, 0)>>, bufs |-> <<>>, err |-> "",
     builder |-> [node |-> Root, s |-> Root, start |-> 0],
     L |-> [none |-> TRUE, d |-> <<>>], nodemap |-> {}]

\* Mutant of find: a query that ends in the middle of an edge counts as not found.
find_only_at_nodes(t, q) ==
    LET fp == find_path(t, Root, q)
    IN  fp.matched_len = Len(q) /\ fp.child = None

\* tree.py Tree.find
find(t, q) == find_path(t, Root, q).matched_len = Len(q)

(***************************************************************************)
(* Walks and queries                                                       *)
(***************************************************************************)

\* node.py Internal.pre_order / Leaf.pre_order: the nodes in visiting order.
RECURSIVE pre_order(_, _)
RECURSIVE PreOrderChildren(_, _, _)
pre_order(t, n) == <<n>> \o PreOrderChildren(t, Children(t, n), 1)
PreOrderChildren(t, ch, j) ==
    IF j > Len(ch) THEN <<>>
    ELSE pre_order(t, ch[j][2]) \o PreOrderChildren(t, ch, j + 1)

\* node.py Internal.post_order / Leaf.post_order: the nodes in visiting order.
RECURSIVE post_order(_, _)
RECURSIVE PostOrderChildren(_, _, _)
\* Mutant of post_order: the node is visited before its children.
post_order_node_first(t, n) == <<n>> \o PostOrderChildren(t, Children(t, n), 1)
post_order(t, n) == PostOrderChildren(t, Children(t, n), 1) \o <<n>>
PostOrderChildren(t, ch, j) ==
    IF j > Len(ch) THEN <<>>
    ELSE post_order(t, ch[j][2]) \o PostOrderChildren(t, ch, j + 1)

\* util.py Path(S, start, end)
Path(S, start, end) == <<S, start, end>>

\* node.py Node.get_positions with Leaf.add_position: an (id, Path) entry for
\* every leaf below the node, in pre-order.
get_positions(t, n) ==
    LET po == pre_order(t, n)
        leaves == SelectSeq(po, LAMBDA x : t.nodes[x].leaf)
    IN  [j \in 1..Len(leaves) |->
            [id |-> t.nodes[leaves[j]].str_id,
             path |-> Path(t.nodes[leaves[j]].S, t.nodes[leaves[j]].start,
                           End(t, leaves[j]))]]

\* Mutant of find_all: the positions are taken below the last node reached, also
\* when the query ends in the middle of the edge to a child.
find_all_from_node(t, q) ==
    LET fp == find_path(t, Root, q)
    IN  IF fp.matched_len < Len(q) THEN <<>> ELSE get_positions(t, fp.node)

\* tree.py Tree.find_all
find_all(t, q) ==
    LET fp == find_path(t, Root, q)
    IN  IF fp.matched_len < Len(q) THEN <<>>
        ELSE get_positions(t, IF fp.child # None THEN fp.child ELSE fp.node)

\* util.py Path.__str__: the symbols S[start:end] of a path.
PathSymbols(t, p) == SubSeq(Buf(t, p[1]), p[2] + 1, p[3])

(***************************************************************************)
(* Analysis passes                                                         *)
(***************************************************************************)

\* node.py Internal.compute_C / Leaf.compute_C: the set of sequence ids at the
\* leaves below the node; C(v) is its size.
RECURSIVE compute_C(_, _)
compute_C(t, n) ==
    IF t.nodes[n].leaf THEN {t.nodes[n].str_id}
    ELSE UNION {compute_C(t, Children(t, n)[j][2]) : j \in 1..Len(Children(t, n))}

C(t, n) == Cardinality(compute_C(t, n))

\* tree.py Tree.common_substrings: the defaultdict's value for a missing key,
\* (0, "no_id", None).
NoEntry == <<0, 0, <<>>>>

\* node.py Internal.common_substrings, over the nodes po[j..] in pre-order: V
\* maps C to (string depth, id, path).
RECURSIVE CommonSubstringsWalk(_, _, _, _)
CommonSubstringsWalk(t, po, j, V) ==
    IF j > Len(po) THEN V
    ELSE IF t.nodes[po[j]].leaf THEN CommonSubstringsWalk(t, po, j + 1, V)
    ELSE LET k == C(t, po[j])
             depth == Depth(t, po[j])
             positions == get_positions(t, po[j])
         IN  IF depth > V[k][1] /\ Len(positions) > 0
             THEN CommonSubstringsWalk(t, po, j + 1,
                      [V EXCEPT ![k] =
                          <<depth, positions[1].id,
                            Path(positions[1].path[1], positions[1].path[2],
                                 positions[1].path[2] + depth)>>])
             ELSE CommonSubstringsWalk(t, po, j + 1, V)

\* Mutant of CommonSubstringsRows: the row of k reports the deepest node with
\* C = k, not the running maximum over the larger k.
RECURSIVE CommonSubstringsRowsNoMax(_, _, _, _)
CommonSubstringsRowsNoMax(V, k, max_len, max_path) ==
    IF k < 2 THEN <<>>
    ELSE Append(CommonSubstringsRowsNoMax(V, k - 1, max_len, max_path),
                <<k, V[k][1], V[k][3]>>)

\* tree.py Tree.common_substrings, the loop for k in range(max(V.keys()), 1, -1),
\* giving the rows for k..2 in ascending order as sorted(l) does.
RECURSIVE CommonSubstringsRows(_, _, _, _)
CommonSubstringsRows(V, k, max_len, max_path) ==
    IF k < 2 THEN <<>>
    ELSE LET length == V[k][1]
             len1 == IF length > max_len THEN length ELSE max_len
             path1 == IF length > max_len THEN V[k][3] ELSE max_path
         IN  Append(CommonSubstringsRows(V, k - 1, len1, path1), <<k, len1, path1>>)

\* tree.py Tree.common_substrings.  The keys of V are the C of the internal
\* nodes, the largest is the root's.
common_substrings(t) ==
    LET po == pre_order(t, Root)
        V == CommonSubstringsWalk(t, po, 1, [k \in 0..Len(t.bufs) |-> NoEntry])
        keys == {C(t, po[j]) : j \in {i \in 1..Len(po) : ~t.nodes[po[i]].leaf}}
        top == CHOOSE k \in keys : \A k2 \in keys : k2 <= k
    IN  CommonSubstringsRows(V, top, 0, <<>>)

\* Mutant of compute_left_diverse: a leaf at start 0 reports no left character
\* in place of None.
RECURSIVE compute_left_diverse_start_silent(_, _)
compute_left_diverse_start_silent(t, n) ==
    IF t.nodes[n].leaf
    THEN IF t.nodes[n].start # 0
         THEN [none |-> FALSE,
               chars |-> {At(Buf(t, t.nodes[n].S), t.nodes[n].start - 1)}]
         ELSE [none |-> FALSE, chars |-> {}]
    ELSE LET ch == Children(t, n)
             lcs == [j \in 1..Len(ch) |-> compute_left_diverse_start_silent(t, ch[j][2])]
             left_characters ==
                 UNION {lcs[j].chars : j \in {i \in 1..Len(ch) : ~lcs[i].none}}
             is_left_diverse ==
                 \/ \E j \in 1..Len(ch) : lcs[j].none
                 \/ Cardinality(left_characters) > 1
         IN  IF is_left_diverse THEN [none |-> TRUE, chars |-> {}]
             ELSE [none |-> FALSE, chars |-> left_characters]

\* node.py Internal.compute_left_diverse / Leaf.compute_left_diverse: the value
\* returned, None (none) when the node is left diverse or is a leaf at start 0,
\* else the set of left characters below the node.
RECURSIVE compute_left_diverse(_, _)
compute_left_diverse(t, n) ==
    IF t.nodes[n].leaf
    THEN IF t.nodes[n].start # 0
         THEN [none |-> FALSE,
               chars |-> {At(Buf(t, t.nodes[n].S), t.nodes[n].start - 1)}]
         ELSE [none |-> TRUE, chars |-> {}]
    ELSE LET ch == Children(t, n)
             lcs == [j \in 1..Len(ch) |-> compute_left_diverse(t, ch[j][2])]
             left_characters ==
                 UNION {lcs[j].chars : j \in {i \in 1..Len(ch) : ~lcs[i].none}}
             is_left_diverse ==
                 \/ \E j \in 1..Len(ch) : lcs[j].none
                 \/ Cardinality(left_characters) > 1
         IN  IF is_left_diverse THEN [none |-> TRUE, chars |-> {}]
             ELSE [none |-> FALSE, chars |-> left_characters]

\* node.py Internal.is_left_diverse, as compute_left_diverse leaves it.
is_left_diverse(t, n) == ~t.nodes[n].leaf /\ compute_left_diverse(t, n).none

\* tree.py Tree.maximal_repeats with node.py Internal.maximal_repeats: a
\* (C, Path) entry for every left diverse internal node below the root, in
\* pre-order.
maximal_repeats(t) ==
    LET po == Tail(pre_order(t, Root))
        hits == SelectSeq(po, LAMBDA n : is_left_diverse(t, n))
    IN  [j \in 1..Len(hits) |->
            <<C(t, hits[j]),
              Path(t.nodes[hits[j]].S, t.nodes[hits[j]].start, End(t, hits[j]))>>]

(***************************************************************************)
(* Lowest common ancestor retrieval (lca_mixin.py)                         *)
(***************************************************************************)

\* Python's a | b, a ^ b and a << n on integers.
RECURSIVE BitOr(_, _)
BitOr(a, b) ==
    IF a = 0 THEN b
    ELSE IF b = 0 THEN a
    ELSE IF a = 0 - 1 \/ b = 0 - 1 THEN 0 - 1
    ELSE ((a % 2) + (b % 2) - (a % 2) * (b % 2)) + 2 * BitOr(a \div 2, b \div 2)

RECURSIVE BitXor(_, _)
BitXor(a, b) ==
    IF a = 0 THEN b
    ELSE IF b = 0 THEN a
    ELSE IF a = 0 - 1 THEN 0 - b - 1
    ELSE IF b = 0 - 1 THEN 0 - a - 1
    ELSE ((a + b) % 2) + 2 * BitXor(a \div 2, b \div 2)

Lshift(a, n) == a * Pow2(n)

\* lca_mixin.py Internal.prepare_lca / Leaf.prepare_lca: the tree and the
\* counter returned.
RECURSIVE node_prepare_lca(_, _, _)
RECURSIVE PrepareLcaChildren(_, _, _, _)
node_prepare_lca(t, n, counter) ==
    LET t1 == [t EXCEPT !.nodes[n].lca_id = counter]
    IN  IF t.nodes[n].leaf THEN [t |-> t1, counter |-> counter + 1]
        ELSE PrepareLcaChildren(t1, Children(t, n), 1, counter + 1)
PrepareLcaChildren(t, ch, j, counter) ==
    IF j > Len(ch) THEN [t |-> t, counter |-> counter]
    ELSE LET r == node_prepare_lca(t, ch[j][2], counter)
         IN  PrepareLcaChildren(r.t, ch, j + 1, r.counter)

\* lca_mixin.py Internal.compute_I_and_L / Leaf.compute_I_and_L: the tree and
\* the I returned.
RECURSIVE compute_I_and_L(_, _)
RECURSIVE ComputeIChildren(_, _, _, _)
compute_I_and_L(t, n) ==
    IF t.nodes[n].leaf
    THEN LET I == t.nodes[n].lca_id
         IN  [t |-> [t EXCEPT !.nodes[n].I = I, !.L.d[I] = n], ival |-> I]
    ELSE LET r == ComputeIChildren(t, Children(t, n), 1, t.nodes[n].lca_id)
         IN  [t |-> [r.t EXCEPT !.nodes[n].I = r.imax, !.L.d[r.imax] = n],
              ival |-> r.imax]
ComputeIChildren(t, ch, j, imax) ==
    IF j > Len(ch) THEN [t |-> t, imax |-> imax]
    ELSE LET r == compute_I_and_L(t, ch[j][2])
             imax1 == IF H(r.ival) > H(imax) THEN r.ival ELSE imax
         IN  ComputeIChildren(r.t, ch, j + 1, imax1)

\* lca_mixin.py Internal.compute_A / Leaf.compute_A
RECURSIVE compute_A(_, _, _)
RECURSIVE ComputeAChildren(_, _, _, _)
compute_A(t, n, A) ==
    LET A1 == BitOr(A, Lshift(1, H(t.nodes[n].I)))
        t1 == [t EXCEPT !.nodes[n].A = A1]
    IN  IF t.nodes[n].leaf THEN t1
        ELSE ComputeAChildren(t1, Children(t, n), 1, A1)
ComputeAChildren(t, ch, j, A) ==
    IF j > Len(ch) THEN t
    ELSE ComputeAChildren(compute_A(t, ch[j][2], A), ch, j + 1, A)

\* Mutant of NodemapWalk: the map is keyed by the start position alone.
RECURSIVE NodemapWalkStartOnly(_, _, _)
NodemapWalkStartOnly(t, po, j) ==
    IF j > Len(po) THEN t
    ELSE IF ~t.nodes[po[j]].leaf THEN NodemapWalkStartOnly(t, po, j + 1)
    ELSE LET id == t.nodes[po[j]].str_id
             start == t.nodes[po[j]].start
         IN  NodemapWalkStartOnly(
                 [t EXCEPT !.nodemap =
                     {e \in @ : ~(e[2] = start)}
                         \cup {<<id, start, po[j]>>}],
                 po, j + 1)

\* lca_mixin.py Tree.prepare_lca, func: nodemap[str_id][start] = node for the
\* leaves of po[j..]; nodemap is a set of (str_id, start, node).
RECURSIVE NodemapWalk(_, _, _)
NodemapWalk(t, po, j) ==
    IF j > Len(po) THEN t
    ELSE IF ~t.nodes[po[j]].leaf THEN NodemapWalk(t, po, j + 1)
    ELSE LET id == t.nodes[po[j]].str_id
             start == t.nodes[po[j]].start
         IN  NodemapWalk(
                 [t EXCEPT !.nodemap =
                     {e \in @ : ~(e[1] = id /\ e[2] = start)}
                         \cup {<<id, start, po[j]>>}],
                 po, j + 1)

\* Mutant of prepare_lca: the numbering starts with 0.
prepare_lca_from_zero(t) ==
    LET t0 == [t EXCEPT !.L = [none |-> FALSE,
                               d |-> [k \in 1..Len(t.nodes) |-> None]]]
        t1 == node_prepare_lca(t0, Root, 0).t
        t2 == compute_I_and_L(t1, Root).t
        t3 == compute_A(t2, Root, 0)
    IN  NodemapWalk(t3, pre_order(t3, Root), 1)

\* Mutant of prepare_lca: a tree that was prepared before is left as it is.
prepare_lca_when_unprepared(t) ==
    IF ~t.L.none THEN t
    ELSE LET t0 == [t EXCEPT !.L = [none |-> FALSE,
                                    d |-> [k \in 1..Len(t.nodes) |-> None]]]
             t1 == node_prepare_lca(t0, Root, 1).t
             t2 == compute_I_and_L(t1, Root).t
             t3 == compute_A(t2, Root, 0)
         IN  NodemapWalk(t3, pre_order(t3, Root), 1)

\* lca_mixin.py Tree.prepare_lca
prepare_lca(t) ==
    LET t0 == [t EXCEPT !.L = [none |-> FALSE,
                               d |-> [k \in 1..Len(t.nodes) |-> None]]]
        t1 == node_prepare_lca(t0, Root, 1).t
        t2 == compute_I_and_L(t1, Root).t
        t3 == compute_A(t2, Root, 0)
    IN  NodemapWalk(t3, pre_order(t3, Root), 1)

\* lca_mixin.py Node.lca_id; the auxiliary node was never numbered.
LcaId(t, n) == IF n = Aux THEN 0 ELSE t.nodes[n].lca_id

\* Failure of a query: the exception raised.
Raise(msg) == [node |-> None, err |-> msg]

\* lca_mixin.py Tree.lca, get_xy_bar(n) for the j of the enclosing call.
get_xy_bar(t, n, j) ==
    LET l == H(t.nodes[n].A)
    IN  IF l = j THEN [node |-> n, err |-> ""]
        ELSE LET mask == 0 - Lshift(0 - 1, j) - 1
                 k == Msb(BitAnd(t.nodes[n].A, mask))
             IN  IF k < 0 THEN Raise("ValueError: negative shift count")
                 ELSE LET mask1 == Lshift(0 - 1, k + 1)
                          Iw == BitOr(BitAnd(t.nodes[n].I, mask1), Lshift(1, k))
                      IN  IF t.L.none
                          THEN Raise("TypeError: 'NoneType' object is not subscriptable")
                          ELSE IF Iw \notin DOMAIN t.L.d THEN Raise("KeyError")
                          ELSE IF t.L.d[Iw] = None THEN Raise("KeyError")
                          ELSE [node |-> t.nodes[t.L.d[Iw]].parent, err |-> ""]

\* Mutant of lca: step 5 returns xbar without comparing it with ybar.
lca_returns_xbar(t, x, y) ==
    IF x = y THEN [node |-> x, err |-> ""]
    ELSE LET k == Msb(BitXor(t.nodes[x].I, t.nodes[y].I))
         IN  IF k < 0 THEN Raise("ValueError: negative shift count")
             ELSE LET mask == Lshift(0 - 1, k + 1)
                      b == BitOr(BitAnd(t.nodes[x].I, mask), Lshift(1, k))
                      mask1 == Lshift(0 - 1, H(b))
                      j == H(BitAnd(BitAnd(t.nodes[x].A, t.nodes[y].A), mask1))
                      xbar == get_xy_bar(t, x, j)
                      ybar == get_xy_bar(t, y, j)
                  IN  IF xbar.err # "" THEN xbar
                      ELSE IF ybar.err # "" THEN ybar
                      ELSE xbar

\* lca_mixin.py Tree.lca: the node returned, or the exception raised.
lca(t, x, y) ==
    IF x = y THEN [node |-> x, err |-> ""]
    ELSE LET k == Msb(BitXor(t.nodes[x].I, t.nodes[y].I))
         IN  IF k < 0 THEN Raise("ValueError: negative shift count")
             ELSE LET mask == Lshift(0 - 1, k + 1)
                      b == BitOr(BitAnd(t.nodes[x].I, mask), Lshift(1, k))
                      mask1 == Lshift(0 - 1, H(b))
                      j == H(BitAnd(BitAnd(t.nodes[x].A, t.nodes[y].A), mask1))
                      xbar == get_xy_bar(t, x, j)
                      ybar == get_xy_bar(t, y, j)
                  IN  IF xbar.err # "" THEN xbar
                      ELSE IF ybar.err # "" THEN ybar
                      ELSE IF xbar.node = None \/ ybar.node = None
                      THEN Raise("AttributeError: 'NoneType' object has no attribute 'lca_id'")
                      ELSE IF LcaId(t, xbar.node) < LcaId(t, ybar.node) THEN xbar
                      ELSE ybar

(***************************************************************************)
(* Naive builder                                                           *)
(***************************************************************************)

\* naive.py Builder.build, before the loop: S = list(S).
NaiveBegin(t, S) == [t EXCEPT !.bufs = Append(@, S)]

\* Mutant of NaiveIteration: the suffix made of the end character alone gets no
\* leaf.
NaiveIterationWithoutLastSuffix(t, id, start) ==
    LET b == Len(t.bufs)
        S == t.bufs[b]
        end == Len(S)
        fp == find_path(t, Root, SubSeq(S, start + 1, end))
        t1 == IF fp.child # None
              THEN split_edge(t, fp.node, fp.matched_len, fp.child)
              ELSE t
        node == IF fp.child # None THEN NewNode(t1) ELSE fp.node
    IN  IF start = end - 1 THEN t
        ELSE IF fp.err # "" THEN Fail(t, fp.err)
        ELSE IF t1.err # "" THEN t1
        ELSE LET new_leaf == Len(t1.nodes) + 1
             IN  [t1 EXCEPT !.nodes =
                     Append([t1.nodes EXCEPT ![node].children =
                                ChildSet(@, At(S, start + fp.matched_len), new_leaf)],
                            Leaf(node, id, b, start, end))]

\* naive.py Builder.build, one iteration of the for loop.
NaiveIteration(t, id, start) ==
    LET b == Len(t.bufs)
        S == t.bufs[b]
        end == Len(S)
        fp == find_path(t, Root, SubSeq(S, start + 1, end))
        t1 == IF fp.child # None
              THEN split_edge(t, fp.node, fp.matched_len, fp.child)
              ELSE t
        node == IF fp.child # None THEN NewNode(t1) ELSE fp.node
    IN  IF fp.err # "" THEN Fail(t, fp.err)
        ELSE IF t1.err # "" THEN t1
        ELSE IF fp.matched_len # Depth(t1, node) THEN Fail(t1, "Add String")
        ELSE IF ~(fp.matched_len < end - start) THEN Fail(t1, "matched_len < end - start")
        ELSE IF HasKey(t1.nodes[node].children, At(S, start + fp.matched_len))
             THEN Fail(t1, "do not overwrite")
        ELSE LET new_leaf == Len(t1.nodes) + 1
             IN  [t1 EXCEPT !.nodes =
                     Append([t1.nodes EXCEPT ![node].children =
                                ChildSet(@, At(S, start + fp.matched_len), new_leaf)],
                            Leaf(node, id, b, start, end))]

(***************************************************************************)
(* McCreight builder                                                       *)
(***************************************************************************)

\* Mutant of Rescan: the rescan stays at the suffix-link target.
RescanStaysAtLink(t, node, f, depth) == [f |-> f, err |-> ""]

\* mccreight.py Builder.compute_suffix_link, the rescan loop (substep B).
RECURSIVE Rescan(_, _, _, _)
Rescan(t, node, f, depth) ==
    IF Depth(t, f) < depth
    THEN IF ~IsInternal(t, f)
         THEN [f |-> f, err |-> "rescan: not an Internal"]
         ELSE LET key == NodeAt(t, node, Depth(t, f) + 1)
              IN  IF HasKey(Children(t, f), key)
                  THEN Rescan(t, node, ChildGet(Children(t, f), key), depth)
                  ELSE [f |-> f, err |-> "rescan: KeyError"]
    ELSE [f |-> f, err |-> ""]

\* Mutant of compute_suffix_link: a rescan that ends in the middle of an edge
\* returns the node below the edge, no edge is split.
compute_suffix_link_no_split(t, node) ==
    IF t.nodes[node].parent = None
    THEN [t |-> Fail(t, "node.parent is None"), f |-> None]
    ELSE IF SuffixLink(t, t.nodes[node].parent) = None
    THEN [t |-> Fail(t, "node.parent.suffix_link is None"), f |-> None]
    ELSE LET depth == Depth(t, node) - 1
             f0 == IF t.nodes[node].suffix_link # None
                   THEN t.nodes[node].suffix_link
                   ELSE SuffixLink(t, t.nodes[node].parent)
             rs == Rescan(t, node, f0, depth)
         IN  IF rs.err # "" THEN [t |-> Fail(t, rs.err), f |-> None]
             ELSE IF ~IsInternal(t, rs.f)
             THEN [t |-> Fail(t, "assert isinstance(f, Internal)"), f |-> None]
             ELSE [t |-> t, f |-> rs.f]

\* mccreight.py Builder.compute_suffix_link: the tree (an edge may have been
\* split) and the node d, the locus of the head minus its first symbol.
compute_suffix_link(t, node) ==
    IF t.nodes[node].parent = None
    THEN [t |-> Fail(t, "node.parent is None"), f |-> None]
    ELSE IF SuffixLink(t, t.nodes[node].parent) = None
    THEN [t |-> Fail(t, "node.parent.suffix_link is None"), f |-> None]
    ELSE LET depth == Depth(t, node) - 1
             f0 == IF t.nodes[node].suffix_link # None
                   THEN t.nodes[node].suffix_link
                   ELSE SuffixLink(t, t.nodes[node].parent)
             rs == Rescan(t, node, f0, depth)
         IN  IF rs.err # "" THEN [t |-> Fail(t, rs.err), f |-> None]
             ELSE IF Depth(t, rs.f) > depth
             THEN IF rs.f = Aux \/ t.nodes[rs.f].parent = None
                  THEN [t |-> Fail(t, "assert f.parent"), f |-> None]
                  ELSE LET t1 == split_edge(t, t.nodes[rs.f].parent, depth, rs.f)
                       IN  [t |-> t1, f |-> IF t1.err = "" THEN NewNode(t1) ELSE None]
             ELSE IF ~IsInternal(t, rs.f)
             THEN [t |-> Fail(t, "assert isinstance(f, Internal)"), f |-> None]
             ELSE [t |-> t, f |-> rs.f]

\* mccreight.py Builder.build, before the loop.
McCreightBegin(t, S) ==
    [t EXCEPT !.nodes[Root].suffix_link = Root,
              !.bufs = Append(@, S),
              !.builder.node = Root]

\* Mutant of McCreightIteration: the computed suffix link is followed but not
\* stored in the node.
McCreightIterationLinkNotStored(t, id, start) ==
    LET b == Len(t.bufs)
        S == t.bufs[b]
        end == Len(S)
        fp == find_path(t, t.builder.node, SubSeq(S, start + 1, end))
        t1 == IF fp.child # None
              THEN split_edge(t, fp.node, fp.matched_len, fp.child)
              ELSE t
        node == IF fp.child # None THEN NewNode(t1) ELSE fp.node
    IN  IF fp.err # "" THEN Fail(t, fp.err)
        ELSE IF t1.err # "" THEN t1
        ELSE IF ~(start + fp.matched_len < end) THEN Fail(t1, "IndexError")
        ELSE IF ~IsInternal(t1, node) THEN Fail(t1, "leaf has no children")
        ELSE LET new_leaf == Len(t1.nodes) + 1
                 t2 == [t1 EXCEPT !.nodes =
                           Append([t1.nodes EXCEPT ![node].children =
                                      ChildSet(@, At(S, start + fp.matched_len), new_leaf)],
                                  Leaf(node, id, b, start, end))]
             IN  IF t2.nodes[node].suffix_link = None
                 THEN LET sl == compute_suffix_link(t2, node)
                      IN  IF sl.t.err # "" THEN sl.t
                          ELSE [sl.t EXCEPT !.builder.node = sl.f]
                 ELSE [t2 EXCEPT !.builder.node = t2.nodes[node].suffix_link]

\* mccreight.py Builder.build, one iteration of the for loop.
McCreightIteration(t, id, start) ==
    LET b == Len(t.bufs)
        S == t.bufs[b]
        end == Len(S)
        fp == find_path(t, t.builder.node, SubSeq(S, start + 1, end))
        t1 == IF fp.child # None
              THEN split_edge(t, fp.node, fp.matched_len, fp.child)
              ELSE t
        node == IF fp.child # None THEN NewNode(t1) ELSE fp.node
    IN  IF fp.err # "" THEN Fail(t, fp.err)
        ELSE IF t1.err # "" THEN t1
        ELSE IF ~(start + fp.matched_len < end) THEN Fail(t1, "IndexError")
        ELSE IF ~IsInternal(t1, node) THEN Fail(t1, "leaf has no children")
        ELSE LET new_leaf == Len(t1.nodes) + 1
                 t2 == [t1 EXCEPT !.nodes =
                           Append([t1.nodes EXCEPT ![node].children =
                                      ChildSet(@, At(S, start + fp.matched_len), new_leaf)],
                                  Leaf(node, id, b, start, end))]
             IN  IF t2.nodes[node].suffix_link = None
                 THEN LET sl == compute_suffix_link(t2, node)
                      IN  IF sl.t.err # "" THEN sl.t
                          ELSE [sl.t EXCEPT !.nodes[node].suffix_link = sl.f,
                                            !.builder.node = sl.f]
                 ELSE [t2 EXCEPT !.builder.node = t2.nodes[node].suffix_link]

(***************************************************************************)
(* Ukkonen builder                                                         *)
(***************************************************************************)

\* Mutant of transition: the left pointer of the transition is the start of the
\* child's path, not of its edge.
transition_from_path_start(t, s, k) ==
    LET S == t.bufs[Len(t.bufs)]
    IN  IF s = Aux
        THEN [node |-> Root, S |-> Len(t.bufs), k |-> 0, p |-> 1]
        ELSE LET s_prime == ChildGet(Children(t, s), At(S, k))
             IN  IF s_prime = None
                 THEN [node |-> None, S |-> 0, k |-> 0, p |-> 0]
                 ELSE [node |-> s_prime, S |-> t.nodes[s_prime].S,
                       k |-> t.nodes[s_prime].start,
                       p |-> End(t, s_prime)]

\* ukkonen.py Builder.transition: the t_k-transition from s, as
\* <<s', S', k', p'>>; node None stands for a KeyError.
transition(t, s, k) ==
    LET S == t.bufs[Len(t.bufs)]
    IN  IF s = Aux
        THEN [node |-> Root, S |-> Len(t.bufs), k |-> 0, p |-> 1]
        ELSE LET s_prime == ChildGet(Children(t, s), At(S, k))
             IN  IF s_prime = None
                 THEN [node |-> None, S |-> 0, k |-> 0, p |-> 0]
                 ELSE [node |-> s_prime, S |-> t.nodes[s_prime].S,
                       k |-> t.nodes[s_prime].start + Depth(t, s),
                       p |-> End(t, s_prime)]

\* Mutant of test_and_split: an implicit state is never taken for the end point,
\* its edge is always split.
test_and_split_always(t, s, start, end, sym) ==
    LET l == end - start
    IN  IF l > 0
        THEN LET tr == transition(t, s, start)
             IN  IF tr.node = None
                 THEN [t |-> Fail(t, "transition: KeyError"), is_end_point |-> TRUE, r |-> s]
                 ELSE LET t1 == split_edge(t, s, Depth(t, s) + l, tr.node)
                      IN  [t |-> t1, is_end_point |-> FALSE, r |-> NewNode(t1)]
        ELSE IF s = Aux
        THEN [t |-> t, is_end_point |-> TRUE, r |-> s]
        ELSE IF HasKey(Children(t, s), sym)
        THEN [t |-> t, is_end_point |-> TRUE, r |-> s]
        ELSE [t |-> t, is_end_point |-> FALSE, r |-> s]

\* ukkonen.py Builder.test_and_split: the tree, is_end_point and the state r.
test_and_split(t, s, start, end, sym) ==
    LET l == end - start
    IN  IF l > 0
        THEN LET tr == transition(t, s, start)
             IN  IF tr.node = None
                 THEN [t |-> Fail(t, "transition: KeyError"), is_end_point |-> TRUE, r |-> s]
                 ELSE IF ~(tr.k + l < Len(Buf(t, tr.S)))
                 THEN [t |-> Fail(t, "test_and_split: IndexError"),
                       is_end_point |-> TRUE, r |-> s]
                 ELSE IF sym = At(Buf(t, tr.S), tr.k + l)
                 THEN [t |-> t, is_end_point |-> TRUE, r |-> s]
                 ELSE LET t1 == split_edge(t, s, Depth(t, s) + l, tr.node)
                      IN  [t |-> t1, is_end_point |-> FALSE, r |-> NewNode(t1)]
        ELSE IF s = Aux
        THEN [t |-> t, is_end_point |-> TRUE, r |-> s]
        ELSE IF HasKey(Children(t, s), sym)
        THEN [t |-> t, is_end_point |-> TRUE, r |-> s]
        ELSE [t |-> t, is_end_point |-> FALSE, r |-> s]

\* Mutant of CanonizeLoop: an edge is only followed when it is strictly
\* shorter than the rest of the reference pair.
RECURSIVE CanonizeLoopStrict(_, _, _, _, _)
CanonizeLoopStrict(t, s, start, end, tr) ==
    IF tr.node = None
    THEN [s |-> s, start |-> start, err |-> "transition: KeyError"]
    ELSE IF tr.p - tr.k < end - start
    THEN LET start1 == start + (tr.p - tr.k)
         IN  IF ~IsInternal(t, tr.node)
             THEN [s |-> s, start |-> start, err |-> "canonize: not an Internal"]
             ELSE IF end - start1 > 0
             THEN CanonizeLoopStrict(t, tr.node, start1, end, transition(t, tr.node, start1))
             ELSE CanonizeLoopStrict(t, tr.node, start1, end, tr)
    ELSE [s |-> s, start |-> start, err |-> ""]

\* ukkonen.py Builder.canonize, the while loop; tr is the transition found.
RECURSIVE CanonizeLoop(_, _, _, _, _)
CanonizeLoop(t, s, start, end, tr) ==
    IF tr.node = None
    THEN [s |-> s, start |-> start, err |-> "transition: KeyError"]
    ELSE IF tr.p - tr.k <= end - start
    THEN LET start1 == start + (tr.p - tr.k)
         IN  IF ~IsInternal(t, tr.node)
             THEN [s |-> s, start |-> start, err |-> "canonize: not an Internal"]
             ELSE IF end - start1 > 0
             THEN CanonizeLoop(t, tr.node, start1, end, transition(t, tr.node, start1))
             ELSE CanonizeLoop(t, tr.node, start1, end, tr)
    ELSE [s |-> s, start |-> start, err |-> ""]

\* ukkonen.py Builder.canonize
canonize(t, s, start, end) ==
    IF end - start = 0
    THEN [s |-> s, start |-> start, err |-> ""]
    ELSE CanonizeLoop(t, s, start, end, transition(t, s, start))

\* Mutant of UpdateLoop: the node made by the last split of a phase is left
\* without a suffix link when the end point is reached.
RECURSIVE UpdateLoopNoLastLink(_, _, _, _, _, _, _)
UpdateLoopNoLastLink(ts, id, s, start, i, t_i, old_r) ==
    IF ts.t.err # "" THEN [t |-> ts.t, s |-> s, start |-> start]
    ELSE IF ~ts.is_end_point
    THEN LET t == ts.t
             r == ts.r
             sstart == i - Depth(t, r)
             r_prime == Len(t.nodes) + 1
             t1 == [t EXCEPT !.nodes =
                       Append([t.nodes EXCEPT ![r].children = ChildSet(@, t_i, r_prime)],
                              UkkonenLeaf(r, id, Len(t.bufs), sstart))]
             t2 == IF old_r # Root
                   THEN [t1 EXCEPT !.nodes[old_r].suffix_link = r]
                   ELSE t1
         IN  IF SuffixLink(t2, s) = None
             THEN [t |-> Fail(t2, "has no suffix link"), s |-> s, start |-> start]
             ELSE LET c == canonize(t2, SuffixLink(t2, s), start, i)
                  IN  IF c.err # ""
                      THEN [t |-> Fail(t2, c.err), s |-> s, start |-> start]
                      ELSE UpdateLoopNoLastLink(test_and_split(t2, c.s, c.start, i, t_i),
                                               id, c.s, c.start, i, t_i, r)
    ELSE [t |-> ts.t, s |-> s, start |-> start]

\* ukkonen.py Builder.update, the while loop.  ts is the last result of
\* test_and_split.
RECURSIVE UpdateLoop(_, _, _, _, _, _, _)
UpdateLoop(ts, id, s, start, i, t_i, old_r) ==
    IF ts.t.err # "" THEN [t |-> ts.t, s |-> s, start |-> start]
    ELSE IF ~ts.is_end_point
    THEN LET t == ts.t
             r == ts.r
             sstart == i - Depth(t, r)
             r_prime == Len(t.nodes) + 1
             t1 == [t EXCEPT !.nodes =
                       Append([t.nodes EXCEPT ![r].children = ChildSet(@, t_i, r_prime)],
                              UkkonenLeaf(r, id, Len(t.bufs), sstart))]
             t2 == IF old_r # Root
                   THEN [t1 EXCEPT !.nodes[old_r].suffix_link = r]
                   ELSE t1
         IN  IF SuffixLink(t2, s) = None
             THEN [t |-> Fail(t2, "has no suffix link"), s |-> s, start |-> start]
             ELSE LET c == canonize(t2, SuffixLink(t2, s), start, i)
                  IN  IF c.err # ""
                      THEN [t |-> Fail(t2, c.err), s |-> s, start |-> start]
                      ELSE UpdateLoop(test_and_split(t2, c.s, c.start, i, t_i),
                                      id, c.s, c.start, i, t_i, r)
    ELSE [t |-> IF old_r # Root
                THEN [ts.t EXCEPT !.nodes[old_r].suffix_link = s]
                ELSE ts.t,
          s |-> s, start |-> start]

\* ukkonen.py Builder.update; end is the phase the open leaves end at.
update(t, id, s, start, end) ==
    LET i == end - 1
        t_i == At(t.bufs[Len(t.bufs)], i)
    IN  UpdateLoop(test_and_split(t, s, start, i, t_i), id, s, start, i, t_i, Root)

\* Mutant of UkkonenBegin: self.S is not replaced by a new list, the symbols
\* of the next sequence are appended to the list of the previous add.
UkkonenBeginSharedList(t) ==
    [t EXCEPT !.nodes[Root].parent = Aux,
              !.nodes[Root].suffix_link = Aux,
              !.bufs = IF @ = <<>> THEN <<<<>>>> ELSE @,
              !.builder.s = Root,
              !.builder.start = 0]

\* ukkonen.py Builder.build, before the loop: the auxiliary node, the empty
\* self.S and the active point at the root.
UkkonenBegin(t) ==
    [t EXCEPT !.nodes[Root].parent = Aux,
              !.nodes[Root].suffix_link = Aux,
              !.bufs = Append(@, <<>>),
              !.builder.s = Root,
              !.builder.start = 0]

\* Mutant of UkkonenPhase: the active point update returns is not canonized.
UkkonenPhaseWithoutCanonize(t, id, sym) ==
    LET t0 == [t EXCEPT !.bufs[Len(t.bufs)] = Append(@, sym)]
        i == Len(t0.bufs[Len(t0.bufs)])
        u == update(t0, id, t0.builder.s, t0.builder.start, i)
    IN  IF u.t.err # "" THEN u.t
        ELSE [u.t EXCEPT !.builder.s = u.s, !.builder.start = u.start]

\* ukkonen.py Builder.build, one phase of the for loop: sym is appended to
\* self.S, which extends every open leaf, then update and canonize.
UkkonenPhase(t, id, sym) ==
    LET t0 == [t EXCEPT !.bufs[Len(t.bufs)] = Append(@, sym)]
        i == Len(t0.bufs[Len(t0.bufs)])
        u == update(t0, id, t0.builder.s, t0.builder.start, i)
        c == canonize(u.t, u.s, u.start, i)
    IN  IF u.t.err # "" THEN u.t
        ELSE IF c.err # "" THEN Fail(u.t, c.err)
        ELSE [u.t EXCEPT !.builder.s = c.s, !.builder.start = c.start]

(***************************************************************************)
(* A whole add                                                             *)
(***************************************************************************)

\* Builder.build of the builder b, the main loop from the iteration start on.
RECURSIVE BuildLoop(_, _, _, _, _)
BuildLoop(b, t, id, S, start) ==
    IF start >= Len(S) \/ t.err # "" THEN t
    ELSE BuildLoop(b,
                   IF b = "naive" THEN NaiveIteration(t, id, start)
                   ELSE IF b = "mccreight" THEN McCreightIteration(t, id, start)
                   ELSE UkkonenPhase(t, id, At(S, start)),
                   id, S, start + 1)

\* tree.py Tree.add with the builder b: the tree after Builder.build has added
\* S, the caller's symbols followed by the end character of id.
build(b, t, id, S) ==
    BuildLoop(b,
              IF b = "naive" THEN NaiveBegin(t, S)
              ELSE IF b = "mccreight" THEN McCreightBegin(t, S)
              ELSE UkkonenBegin(t),
              id, S, 0)

(***************************************************************************)
(* Progress function (builder.py)                                          *)
(*                                                                         *)
(* progress holds the builders' progress_tick, 0 while their progress is   *)
(* None, and for every builder the indices its callback received during    *)
(* the current add.                                                        *)
(***************************************************************************)

\* builder.py Builder.__init__: progress = None, progress_tick = 1.
NoProgress == [tick |-> 0, naive |-> <<>>, mccreight |-> <<>>, ukkonen |-> <<>>]

\* builder.py Builder.set_progress_function(tick, callback), on every builder.
set_progress_function(tick) ==
    [tick |-> tick, naive |-> <<>>, mccreight |-> <<>>, ukkonen |-> <<>>]

\* naive.py, mccreight.py, ukkonen.py Builder.build:
\* if self.progress and index % self.progress_tick == 0: self.progress(index)
Deliver(p, calls, index) ==
    IF p.tick > 0 /\ index % p.tick = 0 THEN Append(calls, index) ELSE calls

\* ukkonen.py Builder.build, before the main loop:
\* if self.progress: self.progress(0)
UkkonenBeginProgress(p) == IF p.tick > 0 THEN Append(p.ukkonen, 0) ELSE p.ukkonen

(***************************************************************************)
(* The client                                                              *)
(***************************************************************************)

Init ==
    /\ naive = EmptyTree
    /\ mccreight = EmptyTree
    /\ ukkonen = EmptyTree
    /\ adds = <<>>
    /\ path = <<>>
    /\ pos = 0
    /\ pc = "idle"
    /\ word = PyInt(0)
    /\ bits = [called |-> FALSE, nlz |-> 0, msb |-> 0, h |-> 0]
    /\ prepared = 0 - 1
    /\ progress = NoProgress
    /\ mixed = EmptyTree
    /\ choice = "none"

\* tree.py Tree.add is called with a fresh id and an iterable.
AddCall ==
    /\ pc = "idle"
    /\ Len(adds) < MaxAdds
    /\ pc' = "pull"
    /\ path' = <<>>
    /\ progress' = NoProgress
    /\ choice' = "none"
    /\ UNCHANGED <<naive, mccreight, ukkonen, adds, pos, word, bits, prepared,
                   mixed>>

\* Tree.add is called with a fresh id and an iterable, and the builders are
\* given a progress function: set_progress_function(tick, callback).
AddCallProgress ==
    /\ pc = "idle"
    /\ Len(adds) < MaxAdds
    /\ pc' = "pull"
    /\ path' = <<>>
    /\ \E tick \in 1..MaxTick : progress' = set_progress_function(tick)
    /\ choice' = "none"
    /\ UNCHANGED <<naive, mccreight, ukkonen, adds, pos, word, bits, prepared,
                   mixed>>

\* Tree.add is called with a fresh id, an iterable and builder=...: the
\* fourth tree is extended by the builder chosen for this call.
AddCallBuilder ==
    /\ pc = "idle"
    /\ Len(adds) < MaxAdds
    /\ pc' = "pull"
    /\ path' = <<>>
    /\ progress' = NoProgress
    /\ \E b \in {"naive", "mccreight", "ukkonen"} : choice' = b
    /\ UNCHANGED <<naive, mccreight, ukkonen, adds, pos, word, bits, prepared,
                   mixed>>

\* util.py Path.from_iterable, tuple(iterable): the next symbol is pulled
\* from the caller's iterable.
Pull ==
    /\ pc = "pull"
    /\ Len(path) < MaxLen
    /\ \E sym \in Symbols : path' = Append(path, sym)
    /\ UNCHANGED <<naive, mccreight, ukkonen, adds, pos, pc, word, bits, prepared,
                   progress, mixed, choice>>

\* The caller's iterable is exhausted: itertools.chain yields the
\* UniqueEndChar, the tuple is complete and the builders start.
PullEnd ==
    /\ pc = "pull"
    /\ LET id == Len(adds) + 1
           S == Append(path, UniqueEndChar(id))
       IN  /\ path' = S
           /\ adds' = Append(adds, path)
           /\ naive' = NaiveBegin(naive, S)
           /\ mccreight' = McCreightBegin(mccreight, S)
           /\ ukkonen' = UkkonenBegin(ukkonen)
           /\ mixed' = IF choice = "naive" THEN NaiveBegin(mixed, S)
                       ELSE IF choice = "mccreight" THEN McCreightBegin(mixed, S)
                       ELSE IF choice = "ukkonen" THEN UkkonenBegin(mixed)
                       ELSE mixed
    /\ progress' = [progress EXCEPT !.ukkonen = UkkonenBeginProgress(progress)]
    /\ pos' = 0
    /\ pc' = "build"
    /\ UNCHANGED <<word, bits, prepared, choice>>

\* One iteration of every builder's main loop.
Step ==
    /\ pc = "build"
    /\ naive' = IF naive.err = "" THEN NaiveIteration(naive, Len(adds), pos) ELSE naive
    /\ mccreight' = IF mccreight.err = ""
                    THEN McCreightIteration(mccreight, Len(adds), pos)
                    ELSE mccreight
    /\ ukkonen' = IF ukkonen.err = ""
                  THEN UkkonenPhase(ukkonen, Len(adds), At(path, pos))
                  ELSE ukkonen
    /\ progress' =
           [progress EXCEPT
               !.naive = IF naive.err = "" THEN Deliver(progress, @, pos) ELSE @,
               !.mccreight = IF mccreight.err = ""
                             THEN Deliver(progress, @, pos) ELSE @,
               !.ukkonen = IF ukkonen'.err = ""
                           THEN Deliver(progress, @, pos + 1) ELSE @]
    /\ mixed' = IF mixed.err # "" THEN mixed
                ELSE IF choice = "naive" THEN NaiveIteration(mixed, Len(adds), pos)
                ELSE IF choice = "mccreight"
                THEN McCreightIteration(mixed, Len(adds), pos)
                ELSE IF choice = "ukkonen"
                THEN UkkonenPhase(mixed, Len(adds), At(path, pos))
                ELSE mixed
    /\ pos' = pos + 1
    /\ pc' = IF pos + 1 = Len(path) THEN "idle" ELSE "build"
    /\ UNCHANGED <<adds, path, word, bits, prepared, choice>>

Next == AddCall \/ Pull \/ PullEnd \/ Step

Spec == Init /\ [][Next]_vars

\* lca_mixin.py Tree.prepare_lca is called on the three trees; prepared is
\* the number of sequences the trees held at the last call, -1 before the first.
PrepareLca ==
    /\ pc = "idle"
    /\ naive' = prepare_lca(naive)
    /\ mccreight' = prepare_lca(mccreight)
    /\ ukkonen' = prepare_lca(ukkonen)
    /\ prepared' = Len(adds)
    /\ UNCHANGED <<adds, path, pos, pc, word, bits, progress, mixed, choice>>

LcaNext == Next \/ PrepareLca

\* The client passes a progress function with every add.
ProgressNext == AddCallProgress \/ Pull \/ PullEnd \/ Step

ProgressSpec == Init /\ [][ProgressNext]_vars

\* The client names a builder with every add.
MixedNext == AddCallBuilder \/ Pull \/ PullEnd \/ Step

MixedSpec == Init /\ [][MixedNext]_vars

LcaSpec == Init /\ [][LcaNext]_vars

\* The bit helpers are called on a word.
BitsCall ==
    /\ ~bits.called
    /\ \E x \in Words :
           /\ word' = x
           /\ bits' = [called |-> TRUE, nlz |-> nlz(x), msb |-> msb(x), h |-> h(x)]
    /\ UNCHANGED <<naive, mccreight, ukkonen, adds, path, pos, pc, prepared,
                   progress, mixed, choice>>

BitsNext == BitsCall

BitsSpec == Init /\ [][BitsNext]_vars


(***************************************************************************)
(* What the trees are checked against                                      *)
(***************************************************************************)

\* The three trees, by builder.
TreeOf(b) ==
    IF b = "naive" THEN naive ELSE IF b = "mccreight" THEN mccreight ELSE ukkonen

Builders == {"naive", "mccreight", "ukkonen"}

\* Every add has completed.
Done == pc # "build"

\* Queries made of caller symbols, one longer than any added sequence.
Queries == UNION {[1..n -> Symbols] : n \in 0..(MaxLen + 1)}

\* q occurs at (0-based) position i of the sequence seq.
OccursAt(q, seq, i) ==
    /\ i + Len(q) <= Len(seq)
    /\ SubSeq(seq, i + 1, i + Len(q)) = q

IsSubstring(q, seq) == \E i \in 0..Len(seq) : OccursAt(q, seq, i)

\* The sequence added under id k, with its end character.
Full(k) == Append(adds[k], UniqueEndChar(k))

\* The nodes reachable from the root.
Reachable(t) == LET po == pre_order(t, Root) IN {po[j] : j \in 1..Len(po)}

\* C1 as stated: for any dict of sequences, the empty one too, and any query q of
\* caller symbols, the empty one too, find(q) is true iff q is a contiguous
\* substring of at least one added sequence.
C1_AsStated ==
    Done => \A b \in Builders : \A q \in Queries :
                find(TreeOf(b), q) <=> \E k \in 1..Len(adds) : IsSubstring(q, adds[k])

\* C1 amended: with any builder, find(q) is true iff q is the empty query or q is a
\* contiguous substring of at least one added sequence (on a tree without
\* sequences the empty query is found).
C1_Find ==
    Done => \A b \in Builders : \A q \in Queries :
                find(TreeOf(b), q) <=>
                    (q = <<>> \/ \E k \in 1..Len(adds) : IsSubstring(q, adds[k]))

C1_Witness ==
    /\ pc = "idle"
    /\ Len(adds) = 2
    /\ \E q \in Queries : Len(q) = 3 /\ find(ukkonen, q) /\ find(mccreight, q)
                          /\ find(naive, q) /\ ~IsSubstring(q, adds[1])
    /\ \E q \in Queries : Len(q) = 2 /\ ~find(ukkonen, q)

\* The occurrences of q: the pairs (id, i) with q at position i of the sequence
\* added under id (the empty query occurs at every position 0..|S|).
Occurrences(q) ==
    {<<k, i>> \in (1..Len(adds)) \X (0..MaxLen) :
        i <= Len(adds[k]) /\ OccursAt(q, adds[k], i)}

\* C2: find_all(q) returns exactly one (id, path) entry per occurrence of q: the
\* (id, start) pairs of the entries are exactly the occurrences of q, no pair is
\* returned twice, each path spells its sequence from start through the end
\* character, and the list is empty when q does not occur.
C2_FindAll ==
    Done => \A b \in Builders : \A q \in Queries :
        LET t == TreeOf(b)
            r == find_all(t, q)
        IN  /\ {<<r[j].id, r[j].path[2]>> : j \in 1..Len(r)} = Occurrences(q)
            /\ Len(r) = Cardinality(Occurrences(q))
            /\ \A j \in 1..Len(r) :
                   PathSymbols(t, r[j].path)
                       = SubSeq(Full(r[j].id), r[j].path[2] + 1, Len(Full(r[j].id)))

C2_Witness ==
    /\ pc = "idle"
    /\ Len(adds) = 2
    /\ \E q \in Queries :
           /\ Len(q) = 1
           /\ Len(find_all(ukkonen, q)) = 4
           /\ Len(find_all(naive, q)) = 4
           /\ Len(find_all(mccreight, q)) = 4
           /\ \E j \in 1..4 : find_all(ukkonen, q)[j].id = 1
           /\ \E j \in 1..4 : find_all(ukkonen, q)[j].id = 2
    /\ \E q \in Queries : Len(q) = 1 /\ find_all(ukkonen, q) = <<>>

\* A node as the builders may not tell it apart: its path-label, its kind and,
\* for a leaf, the sequence id and start.
CanonNode(t, n) ==
    [label |-> Label(t, n), leaf |-> t.nodes[n].leaf,
     str_id |-> t.nodes[n].str_id,
     start |-> IF t.nodes[n].leaf THEN t.nodes[n].start ELSE 0]

\* A tree up to path-label isomorphism: its nodes, its parent/child relation
\* between path-labels and its size, whatever the child-map iteration order.
Canon(t) ==
    LET po == pre_order(t, Root)
        R == {po[j] : j \in 1..Len(po)}
    IN  [nodes |-> {CanonNode(t, n) : n \in R},
         edges |-> UNION {{<<Label(t, n), Label(t, Children(t, n)[j][2])>> :
                              j \in 1..Len(Children(t, n))} : n \in R},
         size |-> Len(po)]

\* C3: builder equivalence: for any dict of sequences (empty sequences and
\* sequences with equal content too) Naive, McCreight and Ukkonen yield the same
\* set of node path-labels, the same parent/child relation between them and the
\* same (sequence id, start) on every leaf.
C3_BuilderEquivalence ==
    Done => /\ Canon(naive) = Canon(mccreight)
            /\ Canon(naive) = Canon(ukkonen)

C3_Witness ==
    /\ pc = "idle"
    /\ Len(adds) = 2
    /\ adds[1] = adds[2]
    /\ Len(adds[1]) = 3
    /\ Canon(naive).size > 10
    /\ naive.nodes # mccreight.nodes
    /\ Canon(naive) = Canon(ukkonen)

\* The concatenation of the edge labels from the root to node n, along the
\* parent pointers.
RECURSIVE PathLabel(_, _)
PathLabel(t, n) ==
    IF n = Root \/ n = Aux \/ n = None THEN <<>>
    ELSE LET p == t.nodes[n].parent
         IN  PathLabel(t, p) \o SubSeq(Label(t, n), Depth(t, p) + 1, Depth(t, n))

\* C4: after every completed add, every non-root node v with parent p has
\* depth(p) < depth(v), the first depth(p) symbols of v's path-span are p's
\* path-label, and v is stored in p.children under the symbol at offset depth(p)
\* of its path-span; so the edge labels from the root to the leaf of position i
\* of sequence S spell S[i..] followed by the end character of S, and every
\* position has such a leaf.
C4_PathLabels ==
    Done => \A b \in Builders :
        LET t == TreeOf(b)
            R == Reachable(t)
        IN  /\ \A v \in R \ {Root} :
                   LET p == t.nodes[v].parent
                   IN  /\ p \in R
                       /\ Depth(t, p) < Depth(t, v)
                       /\ SubSeq(Label(t, v), 1, Depth(t, p)) = Label(t, p)
                       /\ ChildGet(Children(t, p), NodeAt(t, v, Depth(t, p))) = v
                       /\ PathLabel(t, v) = Label(t, v)
                       /\ t.nodes[v].leaf =>
                              PathLabel(t, v) =
                                  SubSeq(Full(t.nodes[v].str_id), t.nodes[v].start + 1,
                                         Len(Full(t.nodes[v].str_id)))
            /\ \A k \in 1..Len(adds) : \A i \in 0..Len(adds[k]) :
                   \E v \in R :
                       /\ t.nodes[v].leaf
                       /\ t.nodes[v].str_id = k
                       /\ t.nodes[v].start = i

C4_Witness ==
    /\ pc = "idle"
    /\ Len(adds) = 2
    /\ \A b \in Builders :
           \E v \in Reachable(TreeOf(b)) :
               /\ TreeOf(b).nodes[v].leaf
               /\ TreeOf(b).nodes[v].str_id = 2
               /\ TreeOf(b).nodes[v].parent # Root
               /\ TreeOf(b).nodes[TreeOf(b).nodes[v].parent].parent # Root
               /\ TreeOf(b).nodes[TreeOf(b).nodes[v].parent].S = 1

AllLeaves(t) == {v \in Reachable(t) : t.nodes[v].leaf}

\* The leaves of a tree that carry sequence id k.
LeavesOf(t, k) == {v \in AllLeaves(t) : t.nodes[v].str_id = k}

RECURSIVE SumLen(_)
SumLen(k) == IF k = 0 THEN 0 ELSE Len(adds[k]) + SumLen(k - 1)


C6_Branching ==
    Done => \A b \in Builders :
        LET t == TreeOf(b)
        IN  \A v \in Reachable(t) :
                LET ch == Children(t, v)
                IN  /\ (~t.nodes[v].leaf /\ v # Root) => Len(ch) >= 2
                    /\ t.nodes[v].leaf => Len(ch) = 0
                    /\ \A j \in 1..Len(ch) :
                           /\ Depth(t, ch[j][2]) > Depth(t, v)
                           /\ ch[j][1] = NodeAt(t, ch[j][2], Depth(t, v))
                           /\ \A i \in 1..Len(ch) : ch[i][1] = ch[j][1] => i = j

C6_Witness ==
    /\ pc = "idle"
    /\ Len(adds) = 2
    /\ \A b \in Builders :
           \E v \in Reachable(TreeOf(b)) \ {Root} :
               /\ Len(Children(TreeOf(b), v)) = 3
               /\ Depth(TreeOf(b), v) = 2

\* Every internal node but the root has a suffix link to the internal node
\* whose path-label is its own minus the first symbol.
SuffixLinksSet(t) ==
    LET R == Reachable(t)
    IN  \A v \in R \ {Root} :
        ~t.nodes[v].leaf =>
            LET f == t.nodes[v].suffix_link
            IN  /\ f \in R
                /\ ~t.nodes[f].leaf
                /\ Label(t, f) = Tail(Label(t, v))

\* C7 as stated: after full construction, whichever builder was used, every
\* internal node but the root has its suffix link set, to the internal node
\* whose path-label is its own minus the first symbol.
C7_AsStated == Done => \A b \in Builders : SuffixLinksSet(TreeOf(b))

\* C7 amended: after full construction with McCreight or Ukkonen, every internal
\* node but the root has its suffix link set, to the internal node whose
\* path-label is its own minus the first symbol (the root when that is empty);
\* Naive sets no suffix link.
C7_SuffixLinks ==
    Done => /\ SuffixLinksSet(mccreight)
            /\ SuffixLinksSet(ukkonen)
            /\ \A v \in Reachable(naive) : naive.nodes[v].suffix_link = None

C7_Witness ==
    /\ pc = "idle"
    /\ Len(adds) = 2
    /\ \A b \in {"mccreight", "ukkonen"} :
           \E v \in Reachable(TreeOf(b)) \ {Root} :
               /\ ~TreeOf(b).nodes[v].leaf
               /\ Depth(TreeOf(b), v) = 3
               /\ Depth(TreeOf(b), TreeOf(b).nodes[v].suffix_link) = 2
               /\ TreeOf(b).nodes[v].suffix_link > v

\* C8: during an Ukkonen add of S to a tree holding earlier sequences, after the
\* phase of the i-th symbol find(q) is true exactly for the q that are substrings
\* of S[0..i) or of an earlier sequence; after the phase of the end character
\* every suffix of S ends at its own leaf.
C8_ImplicitTree ==
    /\ (pc = "build" \/ (pc = "idle" /\ Len(adds) > 0)) =>
           \A q \in Queries :
               find(ukkonen, q) <=>
                   \/ IsSubstring(q, SubSeq(path, 1, pos))
                   \/ \E k \in 1..(Len(adds) - 1) : IsSubstring(q, adds[k])
    /\ (pc = "idle" /\ Len(adds) > 0) =>
           \A i \in 0..(Len(path) - 1) :
               LET fp == find_path(ukkonen, Root, SubSeq(path, i + 1, Len(path)))
               IN  /\ fp.matched_len = Len(path) - i
                   /\ fp.child = None
                   /\ ukkonen.nodes[fp.node].leaf
                   /\ ukkonen.nodes[fp.node].str_id = Len(adds)
                   /\ ukkonen.nodes[fp.node].start = i

C8_Witness ==
    /\ pc = "build"
    /\ Len(adds) = 2
    /\ Len(adds[1]) = 2
    /\ pos = 2
    /\ \E q \in Queries : IsSubstring(q, adds[2]) /\ ~find(ukkonen, q)
    /\ \E q \in Queries : Len(q) = 2 /\ find(ukkonen, q) /\ ~IsSubstring(q, adds[1])

\* C9: with a pull iterator and the Ukkonen builder, the (k+1)-th symbol is
\* requested only after the k-th has been processed into the tree: while the
\* iterator is asked for its next symbol, find sees every substring of the
\* symbols it has yielded so far.
C9_Online ==
    pc = "pull" => \A q \in Queries : IsSubstring(q, path) => find(ukkonen, q)

\* The number of added sequences that contain q.
Containing(q) == Cardinality({k \in 1..Len(adds) : IsSubstring(q, adds[k])})

\* l(k): the length of the longest string that is a substring of at least k of
\* the sequences, 0 if there is none.
LongestCommon(k) ==
    CHOOSE n \in 0..MaxLen :
        /\ \E q \in Queries : Len(q) = n /\ (n > 0 => Containing(q) >= k)
        /\ \A q \in Queries : Len(q) > n => Containing(q) < k

\* C10: for a tree holding K >= 2 distinct sequence ids common_substrings returns
\* exactly K - 1 rows (k, l(k), path), one for each k = 2..K in ascending k, with
\* l(k) the length of the longest string that is a substring of at least k of the
\* sequences (0 if none) and, when l(k) > 0, path a string of that length
\* occurring in at least k of them; for K < 2 it returns the empty list.
C10_CommonSubstrings ==
    Done => \A b \in Builders :
        LET t == TreeOf(b)
            rows == common_substrings(t)
            K == Len(adds)
        IN  IF K < 2 THEN rows = <<>>
            ELSE /\ Len(rows) = K - 1
                 /\ \A j \in 1..(K - 1) :
                        /\ rows[j][1] = j + 1
                        /\ rows[j][2] = LongestCommon(j + 1)
                        /\ rows[j][2] > 0 =>
                               /\ Len(PathSymbols(t, rows[j][3])) = rows[j][2]
                               /\ Containing(PathSymbols(t, rows[j][3])) >= j + 1

C10_Witness ==
    /\ pc = "idle"
    /\ Len(adds) = 3
    /\ \A b \in Builders :
           /\ common_substrings(TreeOf(b))[1][2] = 3
           /\ common_substrings(TreeOf(b))[2][2] = 2
           /\ PathSymbols(TreeOf(b), common_substrings(TreeOf(b))[2][3]) = <<1, 2>>

\* alpha is a maximal repeat of the added sequences: two of its occurrences have
\* different left symbols (an occurrence at position 0 differs from every
\* other) and different right symbols (the end characters are unique).
MaximalRepeat(q) ==
    \E o1 \in Occurrences(q), o2 \in Occurrences(q) :
        /\ o1 # o2
        /\ \/ o1[2] = 0
           \/ o2[2] = 0
           \/ Full(o1[1])[o1[2]] # Full(o2[1])[o2[2]]
        /\ Full(o1[1])[o1[2] + Len(q) + 1] # Full(o2[1])[o2[2] + Len(q) + 1]

\* C11: maximal_repeats returns exactly one entry (C, alpha) for each non-empty
\* maximal repeat alpha of the added sequences and no other entry, and C is the
\* number of sequences that contain alpha.
C11_MaximalRepeats ==
    Done => \A b \in Builders :
        LET t == TreeOf(b)
            mr == maximal_repeats(t)
            alpha == [j \in 1..Len(mr) |-> PathSymbols(t, mr[j][2])]
        IN  /\ \A i, j \in 1..Len(mr) : alpha[i] = alpha[j] => i = j
            /\ {alpha[j] : j \in 1..Len(mr)} =
                   {q \in Queries : q # <<>> /\ MaximalRepeat(q)}
            /\ \A j \in 1..Len(mr) : mr[j][1] = Containing(alpha[j])

C11_Witness ==
    /\ pc = "idle"
    /\ Len(adds) = 2
    /\ \E j \in 1..Len(maximal_repeats(ukkonen)) :
           /\ maximal_repeats(ukkonen)[j][1] = 2
           /\ Len(PathSymbols(ukkonen, maximal_repeats(ukkonen)[j][2])) = 2
    /\ \E n \in Reachable(mccreight) \ {Root} :
           ~mccreight.nodes[n].leaf /\ ~is_left_diverse(mccreight, n)

\* The bits set in a 32-bit word, bit 0 the lowest.
Bit(x, i) ==
    IF i < 16 THEN (x[2] \div Pow2(i)) % 2 ELSE (x[1] \div Pow2(i - 16)) % 2

SetBits(x) == {i \in 0..31 : Bit(x, i) = 1}

\* C16: h(0) returns 32.
C16_HOfZero == (bits.called /\ word = PyInt(0)) => bits.h = 32

\* C17: for every word x, 0 <= x < 2^32, nlz(x) is the number of leading zero
\* bits of x, msb(x) = 31 - nlz(x) is the index of the highest set bit, -1 for
\* x = 0, and for x > 0 h(x) is the index of the lowest set bit.
C17_BitHelpers ==
    bits.called =>
        LET on == SetBits(word)
        IN  /\ bits.msb = 31 - bits.nlz
            /\ on = {} => (bits.nlz = 32 /\ bits.msb = 0 - 1)
            /\ on # {} =>
                   /\ bits.msb \in on
                   /\ \A i \in on : i <= bits.msb
                   /\ bits.nlz = Cardinality({i \in 0..31 : i > bits.msb})
                   /\ bits.h \in on
                   /\ \A i \in on : bits.h <= i

C17_Witness ==
    /\ bits.called
    /\ bits.nlz = 0
    /\ bits.h = 5
    /\ Cardinality(SetBits(word)) = 27

\* prepare_lca has run on the trees as they are now.
Fresh == prepared = Len(adds)

\* The ancestors of a node, itself included.
RECURSIVE Ancestors(_, _)
Ancestors(t, n) ==
    IF n = None \/ n = Aux THEN {} ELSE {n} \cup Ancestors(t, t.nodes[n].parent)

\* The deepest node of a set of nodes.
Deepest(t, common) ==
    CHOOSE a \in common : \A a2 \in common : Depth(t, a2) <= Depth(t, a)

\* The deepest node that is an ancestor of both x and y.
DeepestCommon(t, x, y) == Deepest(t, Ancestors(t, x) \cap Ancestors(t, y))

\* The leaves held in nodemap.
NodemapLeaves(t) == {e[3] : e \in t.nodemap}

\* C12: after prepare_lca on a completed tree, for every pair of nodes (x, y),
\* leaves or internal nodes, one an ancestor of the other or not, lca(x, y)
\* returns the deepest node that is an ancestor of both.
C12_LcaAllPairs ==
    (Fresh /\ pc = "idle") => \A b \in Builders :
        LET t == TreeOf(b)
            R == Reachable(t)
        IN  \A x \in R, y \in R :
                lca(t, x, y) = [node |-> DeepestCommon(t, x, y), err |-> ""]

\* C13: for any two leaves x and y taken from nodemap after prepare_lca,
\* lca(x, y) and lca(y, x) return the same node, the deepest common ancestor
\* of the two leaves, and lca(x, x) returns x.
C13_LcaLeaves ==
    (Fresh /\ pc = "idle") => \A b \in Builders :
        LET t == TreeOf(b)
            NL == NodemapLeaves(t)
        IN  \A x \in NL :
                LET ax == Ancestors(t, x)
                IN  /\ lca(t, x, x) = [node |-> x, err |-> ""]
                    /\ \A y \in {z \in NL : z > x} :
                           LET a == lca(t, x, y)
                           IN  /\ a = lca(t, y, x)
                               /\ a.err = ""
                               /\ a.node = Deepest(t, ax \cap Ancestors(t, y))

C13_Witness ==
    /\ Fresh
    /\ Len(adds) = 2
    /\ \A b \in Builders :
           \E x, y, z \in NodemapLeaves(TreeOf(b)) :
               /\ lca(TreeOf(b), x, y).node # Root
               /\ Depth(TreeOf(b), lca(TreeOf(b), x, y).node) = 2
               /\ TreeOf(b).nodes[x].str_id # TreeOf(b).nodes[y].str_id
               /\ lca(TreeOf(b), x, z).node = Root


\* The nodes of the subtree of n, n included.
Subtree(t, n) == {m \in Reachable(t) : n \in Ancestors(t, m)}

\* C14: prepare_lca numbers the N nodes of the tree 1..N in depth-first
\* pre-order (each id used once, a parent before its children, every subtree
\* occupying a contiguous range of ids that starts at its top node), and for
\* the same input the node with a given path-label receives the same lca_id
\* whichever of Naive, McCreight or Ukkonen built the tree.
C14_LcaIds ==
    (Fresh /\ pc = "idle") =>
        /\ \A b \in Builders :
               LET t == TreeOf(b)
                   R == Reachable(t)
               IN  /\ {LcaId(t, n) : n \in R} = 1..Cardinality(R)
                   /\ \A n \in R \ {Root} :
                          LcaId(t, t.nodes[n].parent) < LcaId(t, n)
                   /\ \A n \in R :
                          LET sub == Subtree(t, n)
                          IN  {LcaId(t, m) : m \in sub} =
                                  LcaId(t, n)..(LcaId(t, n) + Cardinality(sub) - 1)
        /\ \A b \in {"mccreight", "ukkonen"} :
               \A n \in Reachable(naive), m \in Reachable(TreeOf(b)) :
                   Label(naive, n) = Label(TreeOf(b), m) =>
                       LcaId(naive, n) = LcaId(TreeOf(b), m)

\* Two sequences are in the trees, and an internal node other than the root
\* has a subtree of at least three nodes that is followed by a later sibling.
C14_Witness ==
    /\ Fresh
    /\ pc = "idle"
    /\ Len(adds) = 2
    /\ \A b \in Builders :
           \E n \in Reachable(TreeOf(b)) \ {Root} :
               /\ ~TreeOf(b).nodes[n].leaf
               /\ Cardinality(Subtree(TreeOf(b), n)) >= 3
               /\ \E m \in Reachable(TreeOf(b)) :
                      LcaId(TreeOf(b), m) =
                          LcaId(TreeOf(b), n) + Cardinality(Subtree(TreeOf(b), n))

\* C15: after prepare_lca on a tree whose sequences were added under distinct
\* ids, for every id and every position i from 0 through |S| nodemap[id][i]
\* is the leaf whose path-label is the suffix of S$ starting at i, for every
\* builder, and nodemap holds no other entries.
C15_Nodemap ==
    (Fresh /\ pc = "idle") => \A b \in Builders :
        LET t == TreeOf(b)
            R == Reachable(t)
        IN  /\ {<<e[1], e[2]>> : e \in t.nodemap} =
                   UNION {{<<id, i>> : i \in 0..Len(adds[id])} : id \in 1..Len(adds)}
            /\ \A e \in t.nodemap :
                   LET S == Append(adds[e[1]], UniqueEndChar(e[1]))
                   IN  /\ e[3] \in R
                       /\ t.nodes[e[3]].leaf
                       /\ Label(t, e[3]) = SubSeq(S, e[2] + 1, Len(S))
                       /\ \A e2 \in t.nodemap :
                              (e2[1] = e[1] /\ e2[2] = e[2]) => e2 = e

\* Two sequences with the same content are in the trees and prepare_lca ran
\* after the second add: nodemap holds four leaves for each of them.
C15_Witness ==
    /\ Fresh
    /\ pc = "idle"
    /\ adds = <<<<1, 2, 1>>, <<1, 2, 1>>>>
    /\ \A b \in Builders : Cardinality(TreeOf(b).nodemap) = 8

\* C18: calling lca(x, y) on a built tree before prepare_lca has been called
\* fails with an error for every pair of nodes x, y, equal or distinct; it
\* never returns a node.
C18_LcaBeforePrepare ==
    (prepared < 0 /\ pc = "idle" /\ Len(adds) > 0) => \A b \in Builders :
        LET t == TreeOf(b)
            R == Reachable(t)
        IN  \A x \in R, y \in R : lca(t, x, y).err # ""

\* n hangs in the tree: the root, or a child of a node that hangs in the tree.
RECURSIVE Attached(_, _)
Attached(t, n) ==
    \/ n = Root
    \/ LET p == t.nodes[n].parent
       IN  /\ p # None
           /\ p # Aux
           /\ \E j \in 1..Len(Children(t, p)) : Children(t, p)[j][2] = n
           /\ Attached(t, p)

\* The nodes of the tree, found from the arena and not by a walk.
TreeNodes(t) == {n \in 1..Len(t.nodes) : Attached(t, n)}

\* The position of node n in the walk w.
IndexIn(w, n) == CHOOSE j \in 1..Len(w) : w[j] = n

\* The walk w visits every node of the tree exactly once.
VisitsOnce(t, w) ==
    /\ {w[j] : j \in 1..Len(w)} = TreeNodes(t)
    /\ Len(w) = Cardinality(TreeNodes(t))

\* The leaves counted by a visitor over the walk w.
leaf_count(t, w) == Cardinality({j \in 1..Len(w) : t.nodes[w[j]].leaf})

\* C20: pre_order(f) and post_order(f) each invoke f exactly once on every
\* node reachable from the root, pre_order on a node before any of its
\* descendants and post_order after all of them; both walks count the same
\* number of leaves, one per inserted suffix, the terminator-only suffix
\* included.
C20_PrePostOrder ==
    Done => \A b \in Builders :
        LET t == TreeOf(b)
            pre == pre_order(t, Root)
            post == post_order(t, Root)
        IN  /\ VisitsOnce(t, pre)
            /\ VisitsOnce(t, post)
            /\ \A m \in TreeNodes(t) : \A n \in Ancestors(t, m) \ {m} :
                   /\ IndexIn(pre, n) < IndexIn(pre, m)
                   /\ IndexIn(post, n) > IndexIn(post, m)
            /\ leaf_count(t, pre) = leaf_count(t, post)
            /\ leaf_count(t, pre) = SumLen(Len(adds)) + Len(adds)

\* Three sequences are in the trees; the walks visit an internal node other
\* than the root and the two orders differ.
C20_Witness ==
    /\ pc = "idle"
    /\ Len(adds) = 3
    /\ \A b \in Builders :
           /\ \E n \in TreeNodes(TreeOf(b)) \ {Root} : ~TreeOf(b).nodes[n].leaf
           /\ leaf_count(TreeOf(b), post_order(TreeOf(b), Root)) >= 6
           /\ pre_order(TreeOf(b), Root) # post_order(TreeOf(b), Root)

\* The multiples of tick among the indices 0..n-1, in increasing order.
Multiples(tick, n) == [j \in 1..((n + tick - 1) \div tick) |-> (j - 1) * tick]

\* C19: with a progress callback and tick t >= 1, each builder invokes the
\* callback once for every main-loop iteration whose index is a multiple of
\* t, in increasing index order, and Naive, McCreight and Ukkonen deliver the
\* same sequence of indices for the same input and tick.
C19_ProgressIndices ==
    (pc = "idle" /\ progress.tick > 0) =>
        /\ progress.naive = Multiples(progress.tick, Len(path))
        /\ progress.mccreight = progress.naive
        /\ progress.ukkonen = progress.naive

\* The edges (p, c, d) that split_edge accepts: c is a child of the internal
\* node p and depth(p) < d < depth(c).
SplittableEdges(t) ==
    {e \in (1..Len(t.nodes)) \X (1..Len(t.nodes)) \X (1..(MaxLen + 1)) :
        /\ ~t.nodes[e[1]].leaf
        /\ \E j \in 1..Len(Children(t, e[1])) : Children(t, e[1])[j][2] = e[2]
        /\ Depth(t, e[1]) < e[3]
        /\ e[3] < Depth(t, e[2])}

\* C21: split_edge on parent p, child c and depth d with
\* depth(p) < d < depth(c) adds exactly one internal node n with path-span
\* (c.S, c.start, c.start + d), parent p, c as its only child under the key
\* c.S[c.start + d], and no suffix link; the entry of p that pointed to c now
\* points to n and c.parent is n; no other node's parent, children, path-span
\* or suffix link changes, and the path-label of every pre-existing node is
\* the same as before.
C21_SplitEdgeFrame ==
    \A b \in Builders :
        LET t == TreeOf(b)
        IN  \A e \in SplittableEdges(t) :
                LET p == e[1]
                    c == e[2]
                    d == e[3]
                    t1 == split_edge(t, p, d, c)
                    n == Len(t.nodes) + 1
                IN  /\ t1.err = t.err
                    /\ Len(t1.nodes) = Len(t.nodes) + 1
                    /\ t1.bufs = t.bufs
                    /\ t1.nodes[n] =
                           [Internal(p, t.nodes[c].S, t.nodes[c].start,
                                     t.nodes[c].start + d)
                               EXCEPT !.children =
                                   <<<<At(Buf(t, t.nodes[c].S), t.nodes[c].start + d), c>>>>]
                    /\ t1.nodes[n].suffix_link = None
                    /\ Len(Children(t1, p)) = Len(Children(t, p))
                    /\ \A j \in 1..Len(Children(t, p)) :
                           /\ Children(t1, p)[j][1] = Children(t, p)[j][1]
                           /\ Children(t1, p)[j][2] =
                                  IF Children(t, p)[j][2] = c THEN n
                                  ELSE Children(t, p)[j][2]
                    /\ t1.nodes[p] = [t.nodes[p] EXCEPT !.children = Children(t1, p)]
                    /\ t1.nodes[c] = [t.nodes[c] EXCEPT !.parent = n]
                    /\ \A m \in (1..Len(t.nodes)) \ {p, c} : t1.nodes[m] = t.nodes[m]
                    /\ \A m \in 1..Len(t.nodes) : Label(t1, m) = Label(t, m)

\* An edge below an internal node other than the root can be split in every
\* tree, and so can an edge that leads to an internal node.
C21_Witness ==
    \A b \in Builders :
        /\ \E e \in SplittableEdges(TreeOf(b)) : e[1] # Root
        /\ \E e \in SplittableEdges(TreeOf(b)) : ~TreeOf(b).nodes[e[2]].leaf

\* The nodes one iteration added to the tree t, giving t2.
Added(t, t2) == (Len(t.nodes) + 1)..Len(t2.nodes)

\* One iteration that led from t to t2 kept what the construction assertions
\* ask for.  scanned: the builder scans for the longest match of the suffix.
AssertionsKept(t, t2, scanned) ==
    /\ t2.err = ""
    \* no entry of a children map was dropped or given to a new leaf
    /\ \A m \in 1..Len(t.nodes) :
           /\ Len(Children(t2, m)) >= Len(Children(t, m))
           /\ \A j \in 1..Len(Children(t, m)) :
                  /\ Children(t2, m)[j][1] = Children(t, m)[j][1]
                  /\ \/ Children(t2, m)[j][2] = Children(t, m)[j][2]
                     \/ /\ Children(t2, m)[j][2] \in Added(t, t2)
                        /\ ~t2.nodes[Children(t2, m)[j][2]].leaf
    /\ \A n \in Added(t, t2) :
           LET p == t2.nodes[n].parent
           IN  /\ p \in 1..Len(t2.nodes)
               /\ ~t2.nodes[p].leaf
               /\ Depth(t2, p) < Depth(t2, n)
               /\ Cardinality({j \in 1..Len(Children(t2, p)) :
                                   Children(t2, p)[j][2] = n}) = 1
               \* a new internal node lies strictly inside the edge it split
               /\ ~t2.nodes[n].leaf =>
                      \A j \in 1..Len(Children(t2, n)) :
                          Depth(t2, n) < Depth(t2, Children(t2, n)[j][2])
               \* a new leaf hangs where the match of its suffix ended
               /\ (t2.nodes[n].leaf /\ scanned) =>
                      Depth(t2, p) = find_path(t, Root, Label(t2, n)).matched_len

\* C22: for every input and every builder the construction assertions never
\* fail: each split_edge call satisfies depth(parent) < new_len <
\* depth(child), each new leaf is attached at a node whose depth equals the
\* matched length and is strictly less than the suffix length, and the
\* leaf's key is not yet present in that node's children, so no existing
\* child is ever overwritten by a new leaf.
C22_AssertionsHold ==
    /\ \A b \in Builders : TreeOf(b).err = ""
    /\ pc = "build" =>
           /\ AssertionsKept(naive, NaiveIteration(naive, Len(adds), pos), TRUE)
           /\ AssertionsKept(mccreight,
                             McCreightIteration(mccreight, Len(adds), pos), TRUE)
           /\ AssertionsKept(ukkonen,
                             UkkonenPhase(ukkonen, Len(adds), At(path, pos)), FALSE)

\* The third sequence is being added, and the next iteration splits an edge
\* and hangs a leaf below the new node in every tree.
C22_Witness ==
    /\ pc = "build"
    /\ Len(adds) = 3
    /\ Cardinality(Added(naive, NaiveIteration(naive, Len(adds), pos))) = 2
    /\ Cardinality(Added(mccreight,
                         McCreightIteration(mccreight, Len(adds), pos))) >= 2
    /\ Cardinality(Added(ukkonen,
                         UkkonenPhase(ukkonen, Len(adds), At(path, pos)))) >= 2

\* The internal nodes of the tree t other than the root.
InnerNodes(t) == {n \in TreeNodes(t) \ {Root} : ~t.nodes[n].leaf}

\* The suffix link of n is set, to the internal node whose path-label is the
\* path-label of n minus its first symbol.
LinkValid(t, n) ==
    LET f == t.nodes[n].suffix_link
    IN  /\ f \in TreeNodes(t)
        /\ ~t.nodes[f].leaf
        /\ Label(t, f) = Tail(Label(t, n))

\* C23: during a McCreight add, every internal node receives its suffix link
\* no later than the end of the iteration after the one that created it, the
\* link pointing to the node whose path-label is the node's own minus its
\* first symbol; at the end of each iteration only the node the next
\* iteration starts from can still lack a link, and whenever
\* compute_suffix_link is called the head's parent already has one (its
\* assertions never fail).
C23_McCreightLinks ==
    /\ mccreight.err = ""
    /\ \A n \in InnerNodes(mccreight) :
           \/ LinkValid(mccreight, n)
           \/ /\ mccreight.nodes[n].suffix_link = None
              /\ pc = "build"
              /\ n = mccreight.builder.node
    /\ pc = "build" =>
           LET t2 == McCreightIteration(mccreight, Len(adds), pos)
           IN  /\ t2.err = ""
               /\ \A n \in InnerNodes(mccreight) : LinkValid(t2, n)

\* Between two iterations of the second add, the node the next iteration
\* starts from was made by the rescan and has no suffix link yet.
C23_Witness ==
    /\ pc = "build"
    /\ Len(adds) = 2
    /\ mccreight.builder.node \in InnerNodes(mccreight)
    /\ mccreight.nodes[mccreight.builder.node].suffix_link = None

\* The head of the McCreight iteration just finished: the parent of the leaf
\* it added for the suffix at pos - 1 of the sequence being added.
LastHead(t) ==
    LET leaf == CHOOSE n \in TreeNodes(t) :
                    /\ t.nodes[n].leaf
                    /\ t.nodes[n].str_id = Len(adds)
                    /\ t.nodes[n].start = pos - 1
    IN  t.nodes[leaf].parent

\* C24: in McCreight's rescan for a head with path-label x.delta, every child
\* lookup made from the suffix-link target by first symbol only succeeds, and
\* the rescan ends, after at most one edge split, at an internal node of
\* depth depth(head) - 1 whose path-label is exactly delta; the following
\* scan from that node then starts on a path that matches the new suffix on
\* its first depth(head) - 1 symbols.
C24_Rescan ==
    (pc = "build" /\ pos > 0) =>
        LET t == mccreight
            head == LastHead(t)
            d == t.builder.node
            t2 == McCreightIteration(t, Len(adds), pos)
        IN  /\ t.err = ""
            /\ d \in TreeNodes(t)
            /\ ~t.nodes[d].leaf
            /\ head = Root => d = Root
            /\ head # Root =>
                   /\ Depth(t, d) = Depth(t, head) - 1
                   /\ Label(t, d) = Tail(Label(t, head))
            /\ Label(t, d) = SubSeq(path, pos + 1, pos + Depth(t, d))
            /\ t2.err = ""
            /\ Cardinality(Added(t, t2)) <= 3

\* The head of the last iteration is three symbols deep and the rescan went
\* down at least one edge from the suffix-link target of the head's parent.
C24_Witness ==
    /\ pc = "build"
    /\ pos > 0
    /\ Len(adds) = 2
    /\ Depth(mccreight, LastHead(mccreight)) = 3
    /\ Depth(mccreight, mccreight.builder.node) = 2
    /\ mccreight.builder.node #
           SuffixLink(mccreight, mccreight.nodes[LastHead(mccreight)].parent)

\* C25: during an Ukkonen add, whenever update follows s.suffix_link the link
\* is set (the 'has no suffix link' assertion never fails), and at the end of
\* every phase every internal node other than the root has a suffix link
\* pointing to the internal node whose path-label is its own minus the first
\* symbol, while the root's suffix link is the auxiliary node.
C25_UkkonenLinks ==
    /\ ukkonen.err = ""
    /\ Len(adds) > 0 =>
           /\ \A n \in InnerNodes(ukkonen) : LinkValid(ukkonen, n)
           /\ ukkonen.nodes[Root].suffix_link = Aux
    /\ pc = "build" =>
           UkkonenPhase(ukkonen, Len(adds), At(path, pos)).err = ""

\* A phase of the second add has just ended and the tree holds an internal
\* node two symbols deep whose suffix link leads to a node one symbol deep.
C25_Witness ==
    /\ pc = "build"
    /\ pos > 0
    /\ Len(adds) = 2
    /\ \E n \in InnerNodes(ukkonen) :
           /\ Depth(ukkonen, n) = 2
           /\ Depth(ukkonen, ukkonen.nodes[n].suffix_link) = 1
           /\ ukkonen.nodes[ukkonen.nodes[n].suffix_link].suffix_link = Root

\* w occurs in seq at the (0-based) position j.
OccursIn(w, seq, j) ==
    /\ j + Len(w) <= Len(seq)
    /\ SubSeq(seq, j + 1, j + Len(w)) = w

\* The suffix of length n of the processed prefix S[0..e) also occurs
\* elsewhere: at an earlier position of the prefix or in an earlier sequence.
OccursElsewhere(S, e, n) ==
    LET w == SubSeq(S, e - n + 1, e)
    IN  \/ \E j \in 0..(e - n - 1) : OccursIn(w, SubSeq(S, 1, e), j)
        \/ \E k \in 1..(Len(adds) - 1) :
               \E j \in 0..Len(adds[k]) :
                   OccursIn(w, Append(adds[k], UniqueEndChar(k)), j)

\* C26: at the end of every Ukkonen phase the active point (s, start, e)
\* returned by canonize is canonical -- either start = e, or the child of s
\* under S[start] has an edge strictly longer than e - start -- and the
\* string path(s) + S[start..e) is the longest suffix of the processed prefix
\* S[0..e) that also occurs elsewhere in the tree.
C26_ActivePoint ==
    (pc \in {"build", "idle"} /\ Len(adds) > 0) =>
        LET t == ukkonen
            s == t.builder.s
            start == t.builder.start
            e == pos
            n == Depth(t, s) + (e - start)
        IN  /\ s \in InnerNodes(t) \cup {Root}
            /\ start <= e
            /\ start < e =>
                   LET c == ChildGet(Children(t, s), At(path, start))
                   IN  /\ c # None
                       /\ Depth(t, c) - Depth(t, s) > e - start
            /\ n <= e
            /\ Label(t, s) \o SubSeq(path, start + 1, e) = SubSeq(path, e - n + 1, e)
            /\ n > 0 => OccursElsewhere(path, e, n)
            /\ \A m \in (n + 1)..e : ~OccursElsewhere(path, e, m)

\* Two phases of the second add are done and the active point lies inside an
\* edge below an internal node other than the root.
C26_Witness ==
    /\ pc = "build"
    /\ Len(adds) = 2
    /\ ukkonen.builder.s # Root
    /\ ukkonen.builder.start < pos
    /\ Depth(ukkonen, ukkonen.builder.s) + (pos - ukkonen.builder.start) = 3

\* The leaves of the tree t that the k-th add created.
LeavesOfAdd(t, k) ==
    {n \in TreeNodes(t) : t.nodes[n].leaf /\ t.nodes[n].str_id = k}

\* C27: during an Ukkonen add, at every phase e every leaf created by this
\* add has effective end e and depth e - start without being updated
\* individually, while the start, end and path-label of every leaf created by
\* an earlier add are unchanged during and after the add.
C27_OpenLeaves ==
    LET t == ukkonen
        current == IF pc = "pull" THEN 0 ELSE Len(adds)
    IN  /\ \A n \in LeavesOfAdd(t, current) :
               /\ End(t, n) = pos
               /\ Depth(t, n) = pos - t.nodes[n].start
               /\ Label(t, n) = SubSeq(path, t.nodes[n].start + 1, pos)
        /\ \A k \in (1..Len(adds)) \ {current} : \A n \in LeavesOfAdd(t, k) :
               /\ End(t, n) = Len(adds[k]) + 1
               /\ Label(t, n) = SubSeq(Append(adds[k], UniqueEndChar(k)),
                                       t.nodes[n].start + 1, Len(adds[k]) + 1)
        /\ pc = "build" =>
               LET t2 == UkkonenPhase(t, Len(adds), At(path, pos))
               IN  \A n \in TreeNodes(t) :
                       t.nodes[n].leaf =>
                           /\ t2.nodes[n] = [t.nodes[n] EXCEPT
                                                !.parent = t2.nodes[n].parent]
                           /\ End(t2, n) = IF t.nodes[n].str_id = Len(adds)
                                           THEN pos + 1 ELSE End(t, n)

\* The second add is two phases in: it has made leaves that now end at 2,
\* next to the leaves of the first add, which end where their sequence ends.
C27_Witness ==
    /\ pc = "build"
    /\ Len(adds) = 2
    /\ pos = 2
    /\ Len(adds[1]) = 3
    /\ Cardinality(LeavesOfAdd(ukkonen, 2)) >= 1
    /\ Cardinality(LeavesOfAdd(ukkonen, 1)) = 4

\* C28: a tree may be extended by add calls that use different builders: for
\* any sequence of add calls with any per-call choice among Naive, McCreight
\* and Ukkonen, every add completes without an assertion failure and the
\* resulting tree equals the tree built from the same sequences with a
\* single builder.
C28_MixedBuilders ==
    /\ mixed.err = ""
    /\ (pc = "idle" /\ choice # "none") => Canon(mixed) = Canon(naive)

\* The sequences a caller can add.
Sequences == UNION {[1..n -> Symbols] : n \in 0..MaxLen}

\* The entries of a find_all result.
Entries(r) == {r[j] : j \in 1..Len(r)}

\* C29: add never removes or alters what the tree already holds: across any
\* sequence of add calls, every node present before an add is still
\* reachable from the root after it with the same path-label and, for a
\* leaf, the same sequence id, so every q with find(q) true before the add is
\* still found after it and find_all(q) after the add contains every entry
\* it returned before.
C29_AddKeeps ==
    (pc = "idle" /\ Len(adds) < MaxAdds) =>
        \A b \in Builders : \A seq \in Sequences :
            LET t == TreeOf(b)
                id == Len(adds) + 1
                t2 == build(b, t, id, Append(seq, UniqueEndChar(id)))
                N == TreeNodes(t)
                N2 == TreeNodes(t2)
            IN  /\ t2.err = ""
                /\ \A n \in N :
                       /\ n \in N2
                       /\ Label(t2, n) = Label(t, n)
                       /\ PathLabel(t2, n) = PathLabel(t, n)
                       /\ t2.nodes[n].leaf = t.nodes[n].leaf
                       /\ t2.nodes[n].str_id = t.nodes[n].str_id
                /\ \A q \in Queries :
                       /\ find(t, q) => find(t2, q)
                       /\ Entries(find_all(t, q)) \subseteq Entries(find_all(t2, q))

\* Two sequences are in the trees, and adding a third one splits an edge
\* that is already there: the trees gain more nodes than the new leaves.
C29_Witness ==
    /\ pc = "idle"
    /\ Len(adds) = 2
    /\ \A b \in Builders :
           /\ Len(find_all(TreeOf(b), <<1>>)) >= 2
           /\ Len(build(b, TreeOf(b), 3, <<1, 2, 0 - 3>>).nodes)
                  > Len(TreeOf(b).nodes) + 3

\* The numbering, L and nodemap of t describe the tree t, whose sequences are
\* seqs: ids in pre-order, L[I(v)] the head of the run of v, nodemap the
\* leaf of every suffix, and lca the deepest common ancestor of two leaves.
LcaDataCurrent(t, seqs) ==
    LET N == TreeNodes(t)
        po == pre_order(t, Root)
        NL == NodemapLeaves(t)
    IN  /\ ~t.L.none
        /\ \A j \in 1..Len(po) : LcaId(t, po[j]) = j
        /\ \A n \in N :
               /\ \E m \in N : /\ n \in Ancestors(t, m)
                               /\ LcaId(t, m) = t.nodes[n].I
               /\ LET head == t.L.d[t.nodes[n].I]
                  IN  /\ head \in Ancestors(t, n)
                      /\ t.nodes[head].I = t.nodes[n].I
                      /\ head # Root =>
                             t.nodes[t.nodes[head].parent].I # t.nodes[n].I
        /\ {<<e[1], e[2]>> : e \in t.nodemap} =
               UNION {{<<id, i>> : i \in 0..Len(seqs[id])} : id \in 1..Len(seqs)}
        /\ \A e \in t.nodemap :
               /\ e[3] \in N
               /\ t.nodes[e[3]].leaf
               /\ Label(t, e[3]) = SubSeq(Append(seqs[e[1]], UniqueEndChar(e[1])),
                                          e[2] + 1, Len(seqs[e[1]]) + 1)
        /\ Cardinality(t.nodemap) = Cardinality(NL)
        /\ \A x \in NL : \A y \in {z \in NL : z > x} :
               lca(t, x, y) = [node |-> DeepestCommon(t, x, y), err |-> ""]

\* C30: prepare_lca may be run again after further add calls: after any
\* interleaving of add and prepare_lca that ends with prepare_lca, the lca_id
\* numbering, L and nodemap describe the current tree, nodemap[id][i] still
\* resolves every leaf of every earlier and later sequence, and lca on any
\* two of those leaves returns their deepest common ancestor in the current
\* tree.
C30_PrepareAgain ==
    (Fresh /\ pc = "idle") => \A b \in Builders :
        /\ LcaDataCurrent(TreeOf(b), adds)
        /\ Len(adds) < MaxAdds - 1 =>
               \A seq \in Sequences :
                   LET id == Len(adds) + 1
                       t2 == build(b, TreeOf(b), id, Append(seq, UniqueEndChar(id)))
                   IN  LcaDataCurrent(prepare_lca(t2), Append(adds, seq))

\* prepare_lca ran on trees of two sequences, and a leaf of the first
\* sequence has another lca_id than prepare_lca gives it after the first add.
C30_Witness ==
    /\ Fresh
    /\ pc = "idle"
    /\ Len(adds) = 2
    /\ Len(adds[1]) = 2
    /\ Len(adds[2]) = 2
    /\ \A b \in Builders :
           LET first == build(b, EmptyTree, 1, Append(adds[1], UniqueEndChar(1)))
               old == prepare_lca(first)
           IN  \E n \in TreeNodes(old) :
                   /\ old.nodes[n].leaf
                   /\ LcaId(old, n) # LcaId(TreeOf(b), n)

====
